---------------------------- MODULE Spec2Model ----------------------------
(***************************************************************************)
(* Model of Fabstir/transcode-example: the streaming XChaCha20-Poly1305    *)
(* chunk codec (encrypt_file.rs), the CID codec (encrypted_cid.rs,         *)
(* utils.rs, s5.rs, server.rs), the tus upload client (tus_client/lib.rs), *)
(* the progress tracker (shared.rs) and the task queue with its single     *)
(* consumer (server.rs).                                                   *)
(*                                                                         *)
(* Each component has its own specification (SpecCipher, SpecCid,          *)
(* SpecUpload, SpecUploadGood, SpecTus, SpecPublish, SpecProgress,         *)
(* SpecQueue); the variables of the other components stay at their         *)
(* initial value.                                                          *)
(***************************************************************************)
EXTENDS Integers, Sequences, FiniteSets, TLC

VARIABLES
    inp,        \* cipher: the input file, the padding and the generated key
    enc,        \* cipher: state of encrypt_file_xchacha20_internal
    dec,        \* cipher: state of decrypt_file_xchacha20(_internal)
    cid,        \* CID codec: the inputs and what the encoders/decoders returned
    up,         \* tus client: one call of upload_with_chunk_size and its requests
    tus,        \* tus client: one call of another operation of the Client
    publish,    \* s5.rs: one publish attempt of transcode_video
    PROGRESS_MAP,   \* shared.rs: task id -> list of Option<i32>
    latest,     \* history: the last progress reported per task and format
    channel,    \* server.rs: the tasks in the mpsc channel, oldest first
    worker,     \* server.rs: the consumer transcode_task_receiver
    TRANSCODED, \* server.rs: source cid -> result list
    senders,    \* server.rs: the handlers waiting in sender.send(..).await
    hist        \* history: ids of the tasks sent, received, completed

cipherVars == <<inp, enc, dec>>
cidVars == <<cid>>
uploadVars == <<up, tus, publish>>
progressVars == <<PROGRESS_MAP, latest>>
queueVars == <<channel, worker, TRANSCODED, senders, hist>>

vars == <<cipherVars, cidVars, uploadVars, progressVars, queueVars>>

----------------------------------------------------------------------------
(* Generic helpers *)

Min(a, b) == IF a < b THEN a ELSE b

Range(s) == {s[i] : i \in 1..Len(s)}

\* n copies of v
Repeat(v, n) == [i \in 1..n |-> v]

\* s[lo..hi) with 0-based bounds, as a Rust slice &s[lo..hi]
Slice(s, lo, hi) == SubSeq(s, lo + 1, hi)

\* u32/u64::to_le_bytes restricted to n bytes: least significant byte first
RECURSIVE to_le_bytes(_, _)
to_le_bytes(v, n) ==
    IF n = 0 THEN <<>> ELSE <<v % 256>> \o to_le_bytes(v \div 256, n - 1)

\* u32::to_be_bytes: most significant byte first
RECURSIVE to_be_bytes(_, _)
to_be_bytes(v, n) ==
    IF n = 0 THEN <<>> ELSE to_be_bytes(v \div 256, n - 1) \o <<v % 256>>

\* value of a little-endian byte string
RECURSIVE from_le_bytes(_)
from_le_bytes(b) ==
    IF b = <<>> THEN 0 ELSE b[1] + 256 * from_le_bytes(Tail(b))

----------------------------------------------------------------------------
(* Bounds of the cipher model *)

\* plaintext chunk size (262144 in the source, scaled down)
ChunkSize == 4
\* largest padding length tried
MaxPadding == 2
\* length of the last, partial chunk of the longest file (100 in the spec)
TailLen == 1

\* Poly1305 tag length
TagSize == 16
\* XNonce length
NonceSize == 24
\* key length
KEY_SIZE == 32

\* the file sizes of the round-trip property, relative to the chunk size
FileSizes ==
    {0, 1, ChunkSize - 1, ChunkSize, ChunkSize + 1, 3 * ChunkSize + TailLen}

\* a file of n bytes; every byte is non-zero and tells its position
FileOf(n) == [i \in 1..n |-> (i % 251) + 1]

KeySeeds == {3, 5}

\* XChaCha20Poly1305::generate_key: 32 bytes decided by the random source
generate_key(seed) == [i \in 1..KEY_SIZE |-> (seed * i + 7) % 256]

----------------------------------------------------------------------------
(* The AEAD, symbolically: a sealed box opens only under the key and the   *)
(* nonce it was sealed with and only when none of its bytes was altered.   *)

AuthFail == [ok |-> FALSE, pt |-> <<>>]

\* cipher.encrypt(&nonce, plaintext): ciphertext of Len(pt) + TagSize bytes
cipher_encrypt(key, nonce, pt) ==
    [key |-> key, nonce |-> nonce, pt |-> pt, flipped |-> {}]

BoxLen(box) == Len(box.pt) + TagSize

\* bytes of a ciphertext file made of boxes
RECURSIVE FileLen(_)
FileLen(boxes) ==
    IF boxes = <<>> THEN 0 ELSE BoxLen(Head(boxes)) + FileLen(Tail(boxes))

\* offset of box i (1-based) in the file
BoxStart(boxes, i) == FileLen(SubSeq(boxes, 1, i - 1))

\* the box holding file byte `off` (0-based)
BoxAt(boxes, off) ==
    CHOOSE i \in 1..Len(boxes) :
        BoxStart(boxes, i) <= off /\ off < BoxStart(boxes, i) + BoxLen(boxes[i])

\* reader.read(&mut buffer) on the ciphertext file: `count` bytes from pos.
\* The bytes are one whole box, or a fragment no key opens.
ReadCipher(boxes, pos, bufLen) ==
    LET count == Min(bufLen, FileLen(boxes) - pos)
        whole == {i \in 1..Len(boxes) :
                     BoxStart(boxes, i) = pos /\ BoxLen(boxes[i]) = count}
    IN  [count |-> count,
         box   |-> IF whole # {} THEN <<boxes[CHOOSE i \in whole : TRUE]>> ELSE <<>>]

\* cipher.decrypt(&nonce, &buffer[..count])
cipher_decrypt(key, nonce, rd) ==
    IF /\ rd.box # <<>>
       /\ rd.box[1].key = key
       /\ rd.box[1].nonce = nonce
       /\ rd.box[1].flipped = {}
    THEN [ok |-> TRUE, pt |-> rd.box[1].pt]
    ELSE AuthFail

\* mutant: the nonce is left at XNonce::default(), the index is never copied in
chunk_nonce_default(chunk_index) ==
    Repeat(0, NonceSize)

\* the 24-byte nonce of a chunk: chunk_index.to_le_bytes() zipped into [0u8; 24]
chunk_nonce(chunk_index) ==
    to_le_bytes(chunk_index, 4) \o Repeat(0, NonceSize - 4)

----------------------------------------------------------------------------
(* encrypt_file_xchacha20 / encrypt_file_xchacha20_internal *)

\* the plaintext length fed to the cipher for a read of `count` bytes
encrypt_length(count, padding) ==
    IF count < ChunkSize THEN count + padding ELSE count

EncInit ==
    [pc |-> "idle", pos |-> 0, buffer |-> Repeat(0, ChunkSize),
     chunk_index |-> 0, out |-> <<>>, result |-> "none"]

DecInit ==
    [pc |-> "idle", pos |-> 0, chunk_index |-> 0, out |-> <<>>,
     input |-> <<>>, key |-> <<>>, padding |-> 0, last_chunk_index |-> 0,
     tampered |-> -1, failed_chunk |-> -1, nonces |-> <<>>, result |-> "none"]

\* encrypt_file_xchacha20: File::open / File::create (`?` returns their
\* error), then the key is generated and the loop entered
encrypt_file_xchacha20 ==
    /\ enc.pc = "idle"
    /\ \E opened \in BOOLEAN :
          enc' = IF opened THEN [enc EXCEPT !.pc = "loop"]
                 ELSE [enc EXCEPT !.pc = "done", !.result = "IoError"]
    /\ UNCHANGED <<inp, dec, cidVars, uploadVars, progressVars, queueVars>>

\* one iteration of the loop of encrypt_file_xchacha20_internal
encrypt_file_xchacha20_internal ==
    /\ enc.pc = "loop"
    /\ LET count  == Min(ChunkSize, Len(inp.file) - enc.pos)
           buffer == [i \in 1..ChunkSize |->
                         IF i <= count THEN inp.file[enc.pos + i]
                         ELSE enc.buffer[i]]
           length == encrypt_length(count, inp.padding)
       IN  IF count = 0
           THEN enc' = [enc EXCEPT !.pc = "done", !.result = "Ok"]
           ELSE IF length > ChunkSize
           THEN \* &buffer[..length] is out of range: panic
                enc' = [enc EXCEPT !.pc = "done", !.result = "panic",
                                   !.buffer = buffer]
           ELSE enc' = [enc EXCEPT
                          !.buffer = buffer,
                          !.pos = enc.pos + count,
                          !.out = Append(enc.out,
                                     cipher_encrypt(inp.key,
                                                    chunk_nonce(enc.chunk_index),
                                                    Slice(buffer, 0, length))),
                          !.chunk_index = enc.chunk_index + 1]
    /\ UNCHANGED <<inp, dec, cidVars, uploadVars, progressVars, queueVars>>

----------------------------------------------------------------------------
(* decrypt_file_xchacha20 / decrypt_file_xchacha20_internal *)

\* server.rs: floor(file_encrypted_size / (262144 + 16)) as u32
last_index_size(file_encrypted_size) ==
    file_encrypted_size \div (ChunkSize + TagSize)

\* altering one byte of the ciphertext file
FlipByte(boxes, off) ==
    LET i == BoxAt(boxes, off)
    IN  [boxes EXCEPT ![i].flipped = @ \cup {off - BoxStart(boxes, i)}]

\* the caller's arguments: the key of the CID, a padding and a last chunk index
DecryptCalls ==
    {[padding |-> p, last_chunk_index |-> l] :
        p \in 0..MaxPadding, l \in 0..4}

\* decrypt_file_xchacha20 is called on the encrypted file, as written by
\* encrypt or with one byte altered underway; File::open / File::create may
\* fail (`?` returns the error)
decrypt_file_xchacha20 ==
    /\ enc.pc = "done" /\ enc.result = "Ok"
    /\ dec.pc = "idle"
    /\ \E call \in DecryptCalls, t \in -1..(FileLen(enc.out) - 1),
          opened \in BOOLEAN :
          dec' = [dec EXCEPT
                    !.pc = IF opened THEN "loop" ELSE "done",
                    !.result = IF opened THEN "none" ELSE "IoError",
                    !.input = IF t = -1 THEN enc.out ELSE FlipByte(enc.out, t),
                    !.tampered = IF t = -1 THEN -1 ELSE BoxAt(enc.out, t) - 1,
                    !.key = inp.key,
                    !.padding = call.padding,
                    !.last_chunk_index = call.last_chunk_index]
    /\ UNCHANGED <<inp, enc, cidVars, uploadVars, progressVars, queueVars>>

\* what `ciphertext.unwrap()` of a failed decryption does
decrypt_auth_failure(chunk_index) ==
    [pc |-> "done", result |-> "panic", failed_chunk |-> chunk_index]

\* mutant: the chunk at last_chunk_index is written whole
last_chunk_written_whole(pt, count, padding) == pt

\* &ciphertext.unwrap()[..(count - 16 - padding)]: `count` is the number of
\* ciphertext bytes read, tag included
last_chunk_written(pt, count, padding) ==
    Slice(pt, 0, count - TagSize - padding)

\* one iteration of the loop of decrypt_file_xchacha20_internal
decrypt_file_xchacha20_internal ==
    /\ dec.pc = "loop"
    /\ LET rd    == ReadCipher(dec.input, dec.pos, ChunkSize + TagSize)
           count == rd.count
           nonce == chunk_nonce(dec.chunk_index)
           plain == cipher_decrypt(dec.key, nonce, rd)
           fail  == decrypt_auth_failure(dec.chunk_index)
           used  == Append(dec.nonces, nonce)
       IN  IF count = 0
           THEN dec' = [dec EXCEPT !.pc = "done", !.result = "Ok"]
           ELSE IF ~plain.ok
           THEN dec' = [dec EXCEPT !.pc = fail.pc, !.result = fail.result,
                                   !.failed_chunk = fail.failed_chunk,
                                   !.nonces = used]
           ELSE IF dec.chunk_index = dec.last_chunk_index
           THEN IF count - TagSize - dec.padding < 0
                THEN \* usize underflow / slice out of range: panic
                     dec' = [dec EXCEPT !.pc = "done", !.result = "panic",
                                        !.nonces = used]
                ELSE dec' = [dec EXCEPT
                               !.out = @ \o last_chunk_written(plain.pt, count,
                                                                dec.padding),
                               !.pos = @ + count,
                               !.chunk_index = @ + 1,
                               !.nonces = used]
           ELSE dec' = [dec EXCEPT !.out = @ \o plain.pt,
                                   !.pos = @ + count,
                                   !.chunk_index = @ + 1,
                                   !.nonces = used]
    /\ UNCHANGED <<inp, enc, cidVars, uploadVars, progressVars, queueVars>>

----------------------------------------------------------------------------
(* Text and the base64 transport encoding.  A text is a sequence of         *)
(* character codes.                                                         *)

CH_PLUS == 43
CH_MINUS == 45
CH_DOT == 46
CH_SLASH == 47
CH_EQ == 61
CH_UNDERSCORE == 95
CH_u == 117

\* the characters of the standard base64 alphabet, by 6-bit value
StdChar(v) ==
    IF v < 26 THEN 65 + v
    ELSE IF v < 52 THEN 97 + (v - 26)
    ELSE IF v < 62 THEN 48 + (v - 52)
    ELSE IF v = 62 THEN CH_PLUS ELSE CH_SLASH

\* the 6-bit value of a character of the standard alphabet, -1 for any other
StdValue(c) ==
    IF c >= 65 /\ c <= 90 THEN c - 65
    ELSE IF c >= 97 /\ c <= 122 THEN c - 97 + 26
    ELSE IF c >= 48 /\ c <= 57 THEN c - 48 + 52
    ELSE IF c = CH_PLUS THEN 62
    ELSE IF c = CH_SLASH THEN 63 ELSE -1

\* str::replace(from, to) for one-character texts
replace(text, from, to) ==
    [i \in 1..Len(text) |-> IF text[i] = from THEN to ELSE text[i]]

\* str::replace(from, ""): the occurrences of a character are removed
replace_by_nothing(text, from) == SelectSeq(text, LAMBDA c : c # from)

\* byte i (1-based) of b, 0 past its end
ByteOrZero(b, i) == IF i <= Len(b) THEN b[i] ELSE 0

\* general_purpose::STANDARD_NO_PAD.encode: 4 characters per 3 bytes, 2 or 3
\* characters for the 1 or 2 bytes left over, no padding
STANDARD_NO_PAD_encode(b) ==
    LET n == 4 * (Len(b) \div 3)
                + (IF Len(b) % 3 = 0 THEN 0 ELSE (Len(b) % 3) + 1)
    IN  [j \in 1..n |->
            LET g  == (j - 1) \div 4
                k  == (j - 1) % 4
                b1 == ByteOrZero(b, 3 * g + 1)
                b2 == ByteOrZero(b, 3 * g + 2)
                b3 == ByteOrZero(b, 3 * g + 3)
            IN  StdChar(IF k = 0 THEN b1 \div 4
                        ELSE IF k = 1 THEN (b1 % 4) * 16 + b2 \div 16
                        ELSE IF k = 2 THEN (b2 % 16) * 4 + b3 \div 64
                        ELSE b3 % 64)]

\* decoding of a sequence of 6-bit values, all valid: 3 bytes per 4 values,
\* 1 or 2 bytes for the 2 or 3 values left over
DecodeValues(v) ==
    LET n == 3 * (Len(v) \div 4)
                + (IF Len(v) % 4 = 0 THEN 0 ELSE (Len(v) % 4) - 1)
    IN  [i \in 1..n |->
            LET g  == (i - 1) \div 3
                k  == (i - 1) % 3
                v1 == ByteOrZero(v, 4 * g + 1)
                v2 == ByteOrZero(v, 4 * g + 2)
                v3 == ByteOrZero(v, 4 * g + 3)
                v4 == ByteOrZero(v, 4 * g + 4)
            IN  IF k = 0 THEN v1 * 4 + v2 \div 16
                ELSE IF k = 1 THEN (v2 % 16) * 16 + v3 \div 4
                ELSE (v3 % 4) * 64 + v4]

\* general_purpose::STANDARD_NO_PAD.decode: Err on a character outside the
\* alphabet (padding included), on a length of 1 mod 4 and on non-zero
\* trailing bits
STANDARD_NO_PAD_decode(text) ==
    LET v == [i \in 1..Len(text) |-> StdValue(text[i])]
        n == Len(v)
    IN  IF \/ \E i \in 1..n : v[i] = -1
           \/ n % 4 = 1
           \/ (n % 4 = 2 /\ v[n] % 16 # 0)
           \/ (n % 4 = 3 /\ v[n] % 4 # 0)
        THEN [ok |-> FALSE, bytes |-> <<>>]
        ELSE [ok |-> TRUE, bytes |-> DecodeValues(v)]

\* utils.rs bytes_to_base64url
bytes_to_base64url(bytes) ==
    replace(replace(STANDARD_NO_PAD_encode(bytes), CH_PLUS, CH_MINUS),
            CH_SLASH, CH_UNDERSCORE)

\* utils.rs base64url_to_bytes; ok = FALSE is the panic of decode(..).unwrap()
base64url_to_bytes(base64url) ==
    STANDARD_NO_PAD_decode(
        replace_by_nothing(
            replace(replace(base64url, CH_MINUS, CH_PLUS), CH_UNDERSCORE, CH_SLASH),
            CH_EQ))

\* general_purpose::URL_SAFE_NO_PAD.encode / decode: the alphabet with - and _
URL_SAFE_NO_PAD_encode(bytes) ==
    [i \in 1..Len(STANDARD_NO_PAD_encode(bytes)) |->
        LET c == STANDARD_NO_PAD_encode(bytes)[i]
        IN  IF c = CH_PLUS THEN CH_MINUS
            ELSE IF c = CH_SLASH THEN CH_UNDERSCORE ELSE c]

URL_SAFE_NO_PAD_decode(text) ==
    IF \E i \in 1..Len(text) : text[i] \in {CH_PLUS, CH_SLASH}
    THEN [ok |-> FALSE, bytes |-> <<>>]
    ELSE STANDARD_NO_PAD_decode(
            [i \in 1..Len(text) |->
                IF text[i] = CH_MINUS THEN CH_PLUS
                ELSE IF text[i] = CH_UNDERSCORE THEN CH_SLASH ELSE text[i]])

\* str::rfind("."): 0-based index of the last '.', -1 for None
rfind_dot(text) ==
    IF \E i \in 1..Len(text) : text[i] = CH_DOT
    THEN (CHOOSE i \in 1..Len(text) :
             text[i] = CH_DOT /\ \A j \in (i + 1)..Len(text) : text[j] # CH_DOT) - 1
    ELSE -1

----------------------------------------------------------------------------
(* The CID codec *)

CID_TYPE_ENCRYPTED_SIZE == 1
ENCRYPTION_ALGORITHM_SIZE == 1
CHUNK_SIZE_AS_POWEROF2_SIZE == 1
ENCRYPTED_BLOB_HASH_SIZE == 33

\* cid type byte of a raw blob, multihash tag of blake3
CID_TYPE_RAW == 38
MHASH_BLAKE3 == 31

\* mutant: drops every zero byte, not only the trailing ones
RECURSIVE trim_all_zeros(_)
trim_all_zeros(b) ==
    IF b = <<>> THEN <<>>
    ELSE (IF Head(b) = 0 THEN <<>> ELSE <<Head(b)>>) \o trim_all_zeros(Tail(b))

\* the loop `while let Some(0) = trimmed.last()`
RECURSIVE trim_trailing_zeros(_)
trim_trailing_zeros(b) ==
    IF b # <<>> /\ b[Len(b)] = 0
    THEN trim_trailing_zeros(SubSeq(b, 1, Len(b) - 1))
    ELSE b

\* file_size.to_le_bytes() without its trailing zeros
trimmed_le_file_size(file_size) == trim_trailing_zeros(to_le_bytes(file_size, 8))

\* mutant: the hash tag byte is not inserted
hash_bytes_to_cid_without_tag(hash, file_size) ==
    <<CID_TYPE_RAW>> \o hash \o trimmed_le_file_size(file_size)

\* utils.rs hash_bytes_to_cid
hash_bytes_to_cid(hash, file_size) ==
    <<CID_TYPE_RAW, MHASH_BLAKE3>> \o hash \o trimmed_le_file_size(file_size)

\* mutant: the type byte replaces the first byte of the decoded hash
hash_to_cid_over_tag(hash, file_size) ==
    LET decoded == URL_SAFE_NO_PAD_decode(hash)
    IN  IF decoded.ok
        THEN [ok |-> TRUE,
              bytes |-> <<CID_TYPE_RAW>> \o Tail(decoded.bytes)
                           \o trimmed_le_file_size(file_size)]
        ELSE [ok |-> FALSE, bytes |-> <<>>]

\* s5.rs hash_to_cid; ok = FALSE is the panic of decode(hash).unwrap()
hash_to_cid(hash, file_size) ==
    LET decoded == URL_SAFE_NO_PAD_decode(hash)
    IN  IF decoded.ok
        THEN [ok |-> TRUE,
              bytes |-> <<CID_TYPE_RAW>> \o decoded.bytes
                           \o trimmed_le_file_size(file_size)]
        ELSE [ok |-> FALSE, bytes |-> <<>>]

\* encrypted_cid.rs create_encrypted_cid
create_encrypted_cid(cid_type_encrypted, encryption_algorithm, chunk_size_as_power_of_2, encrypted_blob_hash, encryption_key, padding, original_cid) ==
    <<cid_type_encrypted, encryption_algorithm, chunk_size_as_power_of_2>>
        \o encrypted_blob_hash
        \o encryption_key
        \o to_be_bytes(padding, 4)
        \o original_cid

\* mutant: the key offset without the multihash tag byte of the blob hash
key_start_index_short ==
    CID_TYPE_ENCRYPTED_SIZE + ENCRYPTION_ALGORITHM_SIZE
        + CHUNK_SIZE_AS_POWEROF2_SIZE + 32

\* the byte offset of the key in an encrypted CID
key_start_index ==
    CID_TYPE_ENCRYPTED_SIZE + ENCRYPTION_ALGORITHM_SIZE
        + CHUNK_SIZE_AS_POWEROF2_SIZE + ENCRYPTED_BLOB_HASH_SIZE

\* the byte offset of the encrypted blob hash in an encrypted CID
hash_start_index ==
    CID_TYPE_ENCRYPTED_SIZE + ENCRYPTION_ALGORITHM_SIZE
        + CHUNK_SIZE_AS_POWEROF2_SIZE

Panicked == [ok |-> FALSE, text |-> <<>>]

\* server.rs get_key_from_encrypted_cid; ok = FALSE is a panic (an empty
\* text, an undecodable text, a slice out of range)
get_key_from_encrypted_cid(encrypted_cid) ==
    LET extension_index == rfind_dot(encrypted_cid)
        cid_without_extension ==
            IF extension_index >= 0
            THEN Slice(encrypted_cid, 0, extension_index)
            ELSE encrypted_cid
    IN  IF Len(cid_without_extension) < 1 THEN Panicked
        ELSE LET cid_bytes ==
                     base64url_to_bytes(
                         Slice(cid_without_extension, 1, Len(cid_without_extension)))
                 start_index == key_start_index
                 end_index == start_index + KEY_SIZE
             IN  IF ~cid_bytes.ok \/ Len(cid_bytes.bytes) < end_index
                 THEN Panicked
                 ELSE [ok |-> TRUE,
                       text |-> bytes_to_base64url(
                                   Slice(cid_bytes.bytes, start_index, end_index))]

\* server.rs get_base64_url_encrypted_blob_hash
get_base64_url_encrypted_blob_hash(encrypted_cid) ==
    IF Len(encrypted_cid) < 1 THEN Panicked
    ELSE LET cid_bytes ==
                 base64url_to_bytes(Slice(encrypted_cid, 1, Len(encrypted_cid)))
             start_index == hash_start_index
             end_index == start_index + ENCRYPTED_BLOB_HASH_SIZE
         IN  IF ~cid_bytes.ok \/ Len(cid_bytes.bytes) < end_index
             THEN Panicked
             ELSE [ok |-> TRUE,
                   text |-> bytes_to_base64url(
                               Slice(cid_bytes.bytes, start_index, end_index))]

----------------------------------------------------------------------------
(* The CID codec at work: the plain CID of an upload (s5.rs), the encrypted *)
(* CID of an encrypted transcode (transcode_video.rs) and the worker's      *)
(* decoding of an encrypted source CID (server.rs).                         *)

HashSeeds == {2, 9}

\* blake3::Hash::as_bytes: 32 bytes decided by the content
blake3_hash(seed) == [i \in 1..32 |-> (seed * i * i + 11) % 256]

\* file sizes around the byte boundaries of the little-endian encoding
CidFileSizes == {0, 1, 255, 256, 257, 65535, 65536, 16777216, 2147483647}

\* padding values: the 0 of transcode_video.rs:402 and one telling big-endian
\* from little-endian
CidPaddings == {0, 258}

\* cid type bytes handed to create_encrypted_cid (0xae in transcode_video.rs)
CidTypes == {174, 0}
ENCRYPTION_ALGORITHM == 166
CHUNK_SIZE_AS_POWER_OF_2 == 18

\* a textual extension
Extension == <<CH_DOT, 109, 112, 52>>

None == [ok |-> FALSE, text |-> <<>>, form |-> "bare", set |-> FALSE, outcome |-> "none"]

CidIdle ==
    [hash |-> <<>>, hash_encrypted |-> <<>>, key |-> <<>>, file_size |-> 0,
     padding |-> 0, cid_type |-> 0,
     cid |-> <<>>, s5_cid |-> <<>>, s5_ok |-> FALSE, s5_text |-> <<>>,
     encrypt |-> "none", encryption_key1 |-> <<>>,
     encrypted_cid_bytes |-> <<>>, encrypted_cid |-> <<>>,
     key_out |-> None, hash_out |-> None]

CidInputs ==
    {[CidIdle EXCEPT !.hash = blake3_hash(h),
                     !.hash_encrypted = blake3_hash(h + 1),
                     !.key = generate_key(k),
                     !.file_size = n, !.padding = p, !.cid_type = t] :
        h \in HashSeeds, k \in KeySeeds, n \in CidFileSizes,
        p \in CidPaddings, t \in CidTypes}

\* transcode_video.rs:444-453: the plain CID of the decrypted content
transcode_video_plain_cid ==
    /\ cid.hash # <<>> /\ cid.cid = <<>>
    /\ cid' = [cid EXCEPT !.cid = hash_bytes_to_cid(cid.hash, cid.file_size)]
    /\ UNCHANGED <<cipherVars, uploadVars, progressVars, queueVars>>

\* s5.rs:49-60,87: the plain CID of an uploaded file, from the base64url
\* text of 0x1f ++ hash kept in the upload metadata
upload_video_s5_cid ==
    /\ cid.hash # <<>> /\ cid.s5_text = <<>>
    /\ LET metadata_hash == URL_SAFE_NO_PAD_encode(<<MHASH_BLAKE3>> \o cid.hash)
           cid_bytes == hash_to_cid(metadata_hash, cid.file_size)
       IN  cid' = [cid EXCEPT
                     !.s5_ok = cid_bytes.ok,
                     !.s5_cid = cid_bytes.bytes,
                     !.s5_text = <<CH_u>> \o bytes_to_base64url(cid_bytes.bytes)]
    /\ UNCHANGED <<cipherVars, uploadVars, progressVars, queueVars>>

\* transcode_video.rs:352, 367-387: the key of the encrypted file; an Err of
\* encrypt_file_xchacha20 (File::open or File::create failed) is logged and
\* the key stays the empty Vec
encryption_key1_after(encrypt, key) == IF encrypt = "Ok" THEN key ELSE <<>>

\* transcode_video.rs:352-490: the encryption step, then the encrypted CID
\* and its text (the encrypted file of an earlier run is hashed and uploaded
\* when the step failed)
transcode_video_encrypted_cid ==
    /\ cid.cid # <<>> /\ cid.encrypted_cid = <<>>
    /\ \E encrypt \in {"Ok", "Err"} :
          LET encryption_key1 == encryption_key1_after(encrypt, cid.key)
              encrypted_blob_hash == <<MHASH_BLAKE3>> \o cid.hash_encrypted
              encrypted_cid_bytes ==
                  create_encrypted_cid(cid.cid_type, ENCRYPTION_ALGORITHM,
                                       CHUNK_SIZE_AS_POWER_OF_2, encrypted_blob_hash,
                                       encryption_key1, cid.padding, cid.cid)
          IN  cid' = [cid EXCEPT
                        !.encrypt = encrypt,
                        !.encryption_key1 = encryption_key1,
                        !.encrypted_cid_bytes = encrypted_cid_bytes,
                        !.encrypted_cid =
                            <<CH_u>> \o bytes_to_base64url(encrypted_cid_bytes)]
    /\ UNCHANGED <<cipherVars, uploadVars, progressVars, queueVars>>

\* the CID texts handed to a decoder: the CID as built, the CID with a
\* textual extension, its first 45 or 49 characters (33 or 36 bytes), and the
\* CID with a character outside the base64 alphabets
DecoderForms == {"bare", "ext", "short33", "short36", "invalid"}

DecoderInput(form) ==
    CASE form = "bare" -> cid.encrypted_cid
      [] form = "ext" -> cid.encrypted_cid \o Extension
      [] form = "short33" -> Slice(cid.encrypted_cid, 0, 45)
      [] form = "short36" -> Slice(cid.encrypted_cid, 0, 49)
      [] form = "invalid" -> [cid.encrypted_cid EXCEPT ![2] = 42]

\* how a decoder call ends for its caller: with the text, or with the panic
\* of decode(..).unwrap() (utils.rs:44) or of a slice out of range
decoder_outcome(r) == IF r.ok THEN "Ok" ELSE "panic"

\* server.rs:268: the key of an encrypted source CID
worker_get_key ==
    /\ cid.encrypted_cid # <<>> /\ ~cid.key_out.set
    /\ \E form \in DecoderForms :
          LET r == get_key_from_encrypted_cid(DecoderInput(form))
          IN  cid' = [cid EXCEPT !.key_out =
                        [ok |-> r.ok, text |-> r.text, form |-> form,
                         set |-> TRUE, outcome |-> decoder_outcome(r)]]
    /\ UNCHANGED <<cipherVars, uploadVars, progressVars, queueVars>>

\* server.rs:212: the encrypted blob hash of an encrypted source CID
worker_get_blob_hash ==
    /\ cid.encrypted_cid # <<>> /\ ~cid.hash_out.set
    /\ \E form \in DecoderForms :
          LET r == get_base64_url_encrypted_blob_hash(DecoderInput(form))
          IN  cid' = [cid EXCEPT !.hash_out =
                        [ok |-> r.ok, text |-> r.text, form |-> form,
                         set |-> TRUE, outcome |-> decoder_outcome(r)]]
    /\ UNCHANGED <<cipherVars, uploadVars, progressVars, queueVars>>

----------------------------------------------------------------------------
(* The tus client: Client::upload_with_chunk_size with its get_info         *)

\* longest local file
MaxFileLen == 4
\* largest chunk_size argument
MaxChunkSize == 2
\* capacity of std's BufReader (8192 bytes, scaled down)
BufCapacity == 3

\* header values of a response: a number, or
HeaderAbsent == -1
HeaderUnparsable == -2

\* the clients: Client::new or Client::with_method_override, with or without
\* with_auth_token
Clients ==
    {[use_method_override |-> o, auth_token |-> t] :
        o \in BOOLEAN, t \in {"None", "t0k3n"}}

\* http::default_headers: the protocol version header of every request
default_headers == ("Tus-Resumable" :> "1.0.0")

\* lib.rs:499-507: the headers of a PATCH (Upload-Offset is kept as the
\* number `upload_offset` of the request)
create_upload_headers ==
    ("Content-Type" :> "application/offset+octet-stream") @@ default_headers

\* mutant: the method is overridden, the header naming it is not added
create_request_without_override_header(client, method, headers) ==
    [method |-> IF client.use_method_override THEN "POST" ELSE method,
     headers |-> IF client.auth_token # "None"
                 THEN ("Authorization" :> "Bearer " \o client.auth_token) @@ headers
                 ELSE headers]

\* mutant: the token is never attached
create_request_without_token(client, method, headers) ==
    [method |-> IF client.use_method_override THEN "POST" ELSE method,
     headers |-> IF client.use_method_override
                 THEN ("X-HTTP-METHOD-OVERRIDE" :> method) @@ headers
                 ELSE headers]

\* lib.rs:329-360 Client::create_request: the method and the headers of the
\* request sent
create_request(client, method, headers) ==
    LET with_auth ==
            IF client.auth_token # "None"
            THEN ("Authorization" :> "Bearer " \o client.auth_token) @@ headers
            ELSE headers
    IN  IF client.use_method_override
        THEN [method |-> "POST",
              headers |-> ("X-HTTP-METHOD-OVERRIDE" :> method) @@ with_auth]
        ELSE [method |-> method, headers |-> with_auth]

UpIdle ==
    [pc |-> "idle", client |-> [use_method_override |-> FALSE, auth_token |-> "None"],
     file_len |-> 0, chunk_size |-> 1,
     bytes_uploaded |-> -1, total_size |-> HeaderAbsent, progress |-> 0,
     reader |-> [fpos |-> 0, bstart |-> 0, bfilled |-> 0, bpos |-> 0],
     requests |-> <<>>, statuses |-> <<>>, offsets |-> <<>>, result |-> "none",
     error_status |-> 0]

UploadCalls ==
    {[UpIdle EXCEPT !.client = cl, !.file_len = n, !.chunk_size = c] :
        cl \in Clients, n \in 0..MaxFileLen, c \in 1..MaxChunkSize}

\* mutant: the reader is left at the start of the file
seek_to_start(progress) == 0

\* reader.seek(SeekFrom::Start(progress as u64)): the position sought
seek_from_start(progress) == progress

\* BufReader::seek: the buffer is discarded, the file positioned
reader_seek(pos) == [fpos |-> pos, bstart |-> pos, bfilled |-> 0, bpos |-> 0]

\* mutant: the bytes read are not consumed
reader_read_peek(r, chunk_size, file_len) ==
    [start |-> r.fpos,
     count |-> Min(chunk_size, IF file_len > r.fpos THEN file_len - r.fpos ELSE 0),
     reader |-> r]

\* BufReader::read(&mut buffer) with buffer of chunk_size bytes on a file of
\* file_len bytes: where the bytes read start, how many, and the reader after.
\* An empty internal buffer and a destination of at least its capacity read
\* the file directly; otherwise the internal buffer is (re)filled and drained.
reader_read(r, chunk_size, file_len) ==
    LET left == IF file_len > r.fpos THEN file_len - r.fpos ELSE 0
    IN  IF r.bpos = r.bfilled /\ chunk_size >= BufCapacity
        THEN LET n == Min(chunk_size, left)
             IN  [start |-> r.fpos, count |-> n,
                  reader |-> [fpos |-> r.fpos + n, bstart |-> r.fpos + n,
                              bfilled |-> 0, bpos |-> 0]]
        ELSE LET filled == IF r.bpos = r.bfilled
                           THEN [r EXCEPT !.bstart = r.fpos,
                                          !.bfilled = Min(BufCapacity, left),
                                          !.bpos = 0,
                                          !.fpos = r.fpos + Min(BufCapacity, left)]
                           ELSE r
                 n == Min(chunk_size, filled.bfilled - filled.bpos)
             IN  [start |-> filled.bstart + filled.bpos, count |-> n,
                  reader |-> [filled EXCEPT !.bpos = filled.bpos + n]]

\* upload_with_chunk_size is called: get_info sends its HEAD request
upload_with_chunk_size ==
    /\ up.pc = "idle" /\ tus.pc = "idle"
    /\ up' = [up EXCEPT
                !.pc = "head",
                !.requests = Append(@, create_request(up.client, "HEAD", default_headers)
                                        @@ [upload_offset |-> -1,
                                            body_start |-> -1, body_len |-> 0])]
    /\ UNCHANGED <<tus, publish, cipherVars, cidVars, progressVars, queueVars>>

\* mutant: the status of the response is not looked at
get_info_whatever_status(transport_ok, status_code, upload_offset, upload_length) ==
    IF ~transport_ok THEN [err |-> "HttpHandlerError", bytes_uploaded |-> 0,
                           total_size |-> HeaderAbsent]
    ELSE IF upload_offset = HeaderAbsent
    THEN [err |-> "NotFoundError", bytes_uploaded |-> 0, total_size |-> HeaderAbsent]
    ELSE IF upload_offset = HeaderUnparsable
    THEN [err |-> "ParsingError", bytes_uploaded |-> 0, total_size |-> HeaderAbsent]
    ELSE [err |-> "none", bytes_uploaded |-> upload_offset,
          total_size |-> IF upload_length = HeaderUnparsable THEN HeaderAbsent
                         ELSE upload_length]

\* the result of get_info for a response (lib.rs:67-105)
get_info(transport_ok, status_code, upload_offset, upload_length) ==
    IF ~transport_ok THEN [err |-> "HttpHandlerError", bytes_uploaded |-> 0,
                           total_size |-> HeaderAbsent]
    ELSE IF upload_offset = HeaderAbsent
    THEN [err |-> "NotFoundError", bytes_uploaded |-> 0, total_size |-> HeaderAbsent]
    ELSE IF upload_offset = HeaderUnparsable
    THEN [err |-> "ParsingError", bytes_uploaded |-> 0, total_size |-> HeaderAbsent]
    ELSE IF status_code \div 100 = 4
    THEN [err |-> "NotFoundError", bytes_uploaded |-> 0, total_size |-> HeaderAbsent]
    ELSE [err |-> "none", bytes_uploaded |-> upload_offset,
          total_size |-> IF upload_length = HeaderUnparsable THEN HeaderAbsent
                         ELSE upload_length]

\* the responses a server may give to the HEAD request
HeadResponses ==
    {[transport_ok |-> t, status_code |-> st, upload_offset |-> o, upload_length |-> l] :
        t \in BOOLEAN, st \in {200, 404},
        o \in {HeaderAbsent, HeaderUnparsable} \cup 0..(MaxFileLen + 1),
        l \in {HeaderAbsent, HeaderUnparsable} \cup 0..(MaxFileLen + 1)}

\* the responses of a server that has the upload, knows its length or not,
\* and reports an offset within the file
GoodHeadResponses ==
    {r \in HeadResponses :
        /\ r.transport_ok /\ r.status_code = 200
        /\ r.upload_offset \in 0..up.file_len
        /\ r.upload_length \in {HeaderAbsent, up.file_len}}

\* mutant: only a local file longer than the server's total size is refused
unequal_size_only_longer(file_len, total_size) ==
    total_size # HeaderAbsent /\ file_len > total_size

\* lib.rs:142-146: the server reported a total size and the file's differs
unequal_size(file_len, total_size) ==
    total_size # HeaderAbsent /\ file_len # total_size

\* lib.rs:138-152: the HEAD response arrives; the file is opened, the sizes
\* are compared and the file is positioned at the offset the server reported
upload_after_get_info_of(responses) ==
    /\ up.pc = "head"
    /\ \E resp \in responses, opened \in BOOLEAN :
          LET info == get_info(resp.transport_ok, resp.status_code,
                               resp.upload_offset, resp.upload_length)
          IN  /\ resp.upload_length \in {HeaderAbsent, HeaderUnparsable, up.file_len,
                                         up.file_len + 1}
              /\ up' =
                   IF info.err # "none"
                   THEN [up EXCEPT !.pc = "done", !.result = info.err,
                                   !.statuses = Append(@, resp.status_code)]
                   ELSE IF ~opened
                   THEN [up EXCEPT !.pc = "done", !.result = "IoError",
                                   !.bytes_uploaded = info.bytes_uploaded,
                                   !.total_size = info.total_size,
                                   !.statuses = Append(@, resp.status_code)]
                   ELSE IF unequal_size(up.file_len, info.total_size)
                   THEN [up EXCEPT !.pc = "done", !.result = "UnequalSizeError",
                                   !.bytes_uploaded = info.bytes_uploaded,
                                   !.total_size = info.total_size,
                                   !.statuses = Append(@, resp.status_code)]
                   ELSE [up EXCEPT
                           !.pc = "loop",
                           !.bytes_uploaded = info.bytes_uploaded,
                           !.total_size = info.total_size,
                           !.progress = info.bytes_uploaded,
                           !.reader = reader_seek(seek_from_start(info.bytes_uploaded)),
                           !.statuses = Append(@, resp.status_code)]
    /\ UNCHANGED <<tus, publish, cipherVars, cidVars, progressVars, queueVars>>

upload_after_get_info == upload_after_get_info_of(HeadResponses)

\* the same against a server that has the upload
upload_after_get_info_good == upload_after_get_info_of(GoodHeadResponses)

\* lib.rs:156-170: one read of the loop; the bytes read are sent as a PATCH
\* request carrying the current progress as Upload-Offset
upload_read_and_patch ==
    /\ up.pc = "loop"
    /\ LET rd == reader_read(up.reader, up.chunk_size, up.file_len)
       IN  up' =
             IF rd.count = 0
             THEN [up EXCEPT !.pc = "done", !.result = "FileReadError",
                             !.reader = rd.reader]
             ELSE [up EXCEPT
                     !.pc = "patch",
                     !.reader = rd.reader,
                     !.requests = Append(@, create_request(up.client, "PATCH",
                                                           create_upload_headers)
                                             @@ [upload_offset |-> up.progress,
                                                 body_start |-> rd.start,
                                                 body_len |-> rd.count])]
    /\ UNCHANGED <<tus, publish, cipherVars, cidVars, progressVars, queueVars>>

\* mutant: a 409 is taken for a success and the loop goes on
patch_status_ignoring_conflict(status_code) ==
    IF status_code = 404 THEN "NotFoundError"
    ELSE IF status_code \notin {204, 409} THEN "UnexpectedStatusCode"
    ELSE "none"

\* mutant: a 404 is reported like any other unexpected status
patch_status_not_found_unexpected(status_code) ==
    IF status_code = 409 THEN "WrongUploadOffsetError"
    ELSE IF status_code # 204 THEN "UnexpectedStatusCode"
    ELSE "none"

\* lib.rs:172-182: the error a PATCH response status stands for
patch_status_error(status_code) ==
    IF status_code = 409 THEN "WrongUploadOffsetError"
    ELSE IF status_code = 404 THEN "NotFoundError"
    ELSE IF status_code # 204 THEN "UnexpectedStatusCode"
    ELSE "none"

\* the responses a server may give to a PATCH request
PatchResponses ==
    {[transport_ok |-> t, status_code |-> st, upload_offset |-> o] :
        t \in BOOLEAN, st \in {204, 409, 404, 500},
        o \in {HeaderAbsent, HeaderUnparsable} \cup 0..(MaxFileLen + 1)}

\* the response of a server that takes every PATCH: 204 and an Upload-Offset
\* of the offset sent plus the length of the body
GoodPatchResponses ==
    LET sent == up.requests[Len(up.requests)]
    IN  {r \in PatchResponses :
            /\ r.transport_ok /\ r.status_code = 204
            /\ r.upload_offset = sent.upload_offset + sent.body_len}

\* lib.rs:170-195: the PATCH response arrives
upload_patch_response_of(responses) ==
    /\ up.pc = "patch"
    /\ \E resp \in responses :
          LET err == patch_status_error(resp.status_code)
          IN  up' =
                IF ~resp.transport_ok
                THEN [up EXCEPT !.pc = "done", !.result = "HttpHandlerError",
                                !.statuses = Append(@, 0)]
                ELSE IF err # "none"
                THEN [up EXCEPT !.pc = "done", !.result = err,
                                !.error_status =
                                    IF err = "UnexpectedStatusCode"
                                    THEN resp.status_code ELSE 0,
                                !.statuses = Append(@, resp.status_code)]
                ELSE IF resp.upload_offset = HeaderAbsent
                THEN [up EXCEPT !.pc = "done", !.result = "MissingHeader",
                                !.statuses = Append(@, resp.status_code),
                                !.offsets = Append(@, resp.upload_offset)]
                ELSE IF resp.upload_offset = HeaderUnparsable
                THEN [up EXCEPT !.pc = "done", !.result = "ParsingError",
                                !.statuses = Append(@, resp.status_code),
                                !.offsets = Append(@, resp.upload_offset)]
                ELSE IF resp.upload_offset >= up.file_len
                THEN [up EXCEPT !.pc = "done", !.result = "Ok",
                                !.progress = resp.upload_offset,
                                !.statuses = Append(@, resp.status_code),
                                !.offsets = Append(@, resp.upload_offset)]
                ELSE [up EXCEPT !.pc = "loop",
                                !.progress = resp.upload_offset,
                                !.statuses = Append(@, resp.status_code),
                                !.offsets = Append(@, resp.upload_offset)]
    /\ UNCHANGED <<tus, publish, cipherVars, cidVars, progressVars, queueVars>>

upload_patch_response == upload_patch_response_of(PatchResponses)

\* the same against a server that takes every PATCH
upload_patch_response_good == upload_patch_response_of(GoodPatchResponses)

----------------------------------------------------------------------------
(* The other operations of the tus client: create_with_metadata, get_info, *)
(* get_server_info and delete.  One call per behaviour, or a get_info      *)
(* after a create that returned the upload URL.                             *)

CH_SPACE == 32
CH_COMMA == 44
CH_COLON == 58
CH_SEMICOLON == 59

\* base64::encode: the standard alphabet, padded with '=' to whole quanta
base64_encode(bytes) ==
    STANDARD_NO_PAD_encode(bytes) \o Repeat(CH_EQ, (3 - (Len(bytes) % 3)) % 3)

\* the number of '=' a text ends with
RECURSIVE trailing_eq(_)
trailing_eq(text) ==
    IF text # <<>> /\ text[Len(text)] = CH_EQ
    THEN 1 + trailing_eq(SubSeq(text, 1, Len(text) - 1))
    ELSE 0

\* base64::decode of a padded text: Err on a character outside the standard
\* alphabet, on padding that is not at the end or does not fill the quantum
base64_decode(text) ==
    LET pad == trailing_eq(text)
    IN  IF Len(text) % 4 # 0 \/ pad > 2
        THEN [ok |-> FALSE, bytes |-> <<>>]
        ELSE STANDARD_NO_PAD_decode(SubSeq(text, 1, Len(text) - pad))

\* str::split(ch): the pieces between the occurrences of ch
RECURSIVE split(_, _)
split(text, ch) ==
    IF \A i \in 1..Len(text) : text[i] # ch THEN <<text>>
    ELSE LET i == CHOOSE j \in 1..Len(text) :
                      text[j] = ch /\ \A k \in 1..(j - 1) : text[k] # ch
         IN  <<SubSeq(text, 1, i - 1)>> \o split(SubSeq(text, i + 1, Len(text)), ch)

\* str::splitn(2, ch): the text before the first ch and the text after it
splitn2(text, ch) ==
    IF \A i \in 1..Len(text) : text[i] # ch THEN <<text>>
    ELSE LET i == CHOOSE j \in 1..Len(text) :
                      text[j] = ch /\ \A k \in 1..(j - 1) : text[k] # ch
         IN  <<SubSeq(text, 1, i - 1), SubSeq(text, i + 1, Len(text))>>

\* [T]::join(sep)
RECURSIVE join(_, _)
join(pieces, sep) ==
    IF pieces = <<>> THEN <<>>
    ELSE IF Len(pieces) = 1 THEN pieces[1]
    ELSE pieces[1] \o <<sep>> \o join(Tail(pieces), sep)

\* the metadata maps handed to create_with_metadata: none, "k" -> "v",
\* and "id" -> "", "k" -> "va"
MetadataMaps ==
    {<<>>,
     (<<107>> :> <<118>>),
     (<<105, 100>> :> <<>>) @@ (<<107>> :> <<118, 97>>)}

\* the orders HashMap::iter may visit the keys in
IterOrders(map) ==
    {o \in [1..Cardinality(DOMAIN map) -> DOMAIN map] :
        \A i, j \in DOMAIN o : o[i] = o[j] => i = j}

\* lib.rs:275-282: the Upload-Metadata header value of a non-empty map
upload_metadata(map, order) ==
    join([i \in DOMAIN order |->
            order[i] \o <<CH_SPACE>> \o base64_encode(map[order[i]])], CH_COMMA)

\* a response header that is not there
Absent == [present |-> FALSE, value |-> <<>>]
Present(value) == [present |-> TRUE, value |-> value]

\* lib.rs:79-94: the metadata get_info reads from the Upload-Metadata header
get_info_metadata(header) ==
    LET decoded == base64_decode(header.value)
        pairs == [i \in DOMAIN split(decoded.bytes, CH_SEMICOLON) |->
                     splitn2(split(decoded.bytes, CH_SEMICOLON)[i], CH_COLON)]
        keys == {pairs[i][1] : i \in DOMAIN pairs}
    IN  IF ~header.present \/ ~decoded.ok \/ \E i \in DOMAIN decoded.bytes :
                                                 decoded.bytes[i] >= 128
        THEN [some |-> FALSE, map |-> <<>>]
        ELSE [some |-> TRUE,
              map |-> [k \in keys |->
                         LET last == CHOOSE i \in DOMAIN pairs :
                                         /\ pairs[i][1] = k
                                         /\ \A j \in DOMAIN pairs :
                                               pairs[j][1] = k => j <= i
                         IN  IF Len(pairs[last]) = 2 THEN pairs[last][2] ELSE <<>>]]

\* no call of get_info, get_server_info, create_with_metadata or delete yet
TusIdle ==
    [pc |-> "idle", metadata |-> <<>>, upload_metadata |-> Absent,
     requests |-> <<>>, response |-> <<>>, result |-> <<>>]

\* the responses a server may give to the creation request
CreateResponses ==
    {[transport_ok |-> t, status_code |-> st, location |-> l] :
        t \in BOOLEAN, st \in {201, 413, 200, 500}, l \in {Absent, Present("url")}}

\* mutant: the status is compared with 201 before it is compared with 413
create_result_created_first(resp) ==
    IF ~resp.transport_ok THEN [err |-> "HttpHandlerError", url |-> ""]
    ELSE IF resp.status_code # 201
    THEN [err |-> "UnexpectedStatusCode", status_code |-> resp.status_code, url |-> ""]
    ELSE IF ~resp.location.present THEN [err |-> "MissingHeader", url |-> ""]
    ELSE [err |-> "none", url |-> resp.location.value]

\* lib.rs:286-301: the result of create_with_metadata for a response
create_result(resp) ==
    IF ~resp.transport_ok THEN [err |-> "HttpHandlerError", url |-> ""]
    ELSE IF resp.status_code = 413 THEN [err |-> "FileTooLarge", url |-> ""]
    ELSE IF resp.status_code # 201
    THEN [err |-> "UnexpectedStatusCode", status_code |-> resp.status_code, url |-> ""]
    ELSE IF ~resp.location.present THEN [err |-> "MissingHeader", url |-> ""]
    ELSE [err |-> "none", url |-> resp.location.value]

\* lib.rs:264-302 Client::create_with_metadata; path.metadata()? may fail
\* before anything is sent
Client_create_with_metadata ==
    /\ tus.pc = "idle" /\ up.pc = "idle"
    /\ \E map \in MetadataMaps, exists \in BOOLEAN :
       \E order \in IterOrders(map), resp \in CreateResponses :
          LET header == IF map # <<>> THEN Present(upload_metadata(map, order))
                        ELSE Absent
              req == create_request(up.client, "POST", default_headers)
                        @@ [upload_length |-> up.file_len, upload_metadata |-> header]
          IN  tus' =
                IF ~exists
                THEN [tus EXCEPT !.pc = "done", !.metadata = map,
                                 !.result = [op |-> "create", err |-> "IoError", url |-> ""]]
                ELSE [tus EXCEPT
                        !.pc = IF create_result(resp).err = "none" THEN "created"
                               ELSE "done",
                        !.metadata = map,
                        !.upload_metadata = header,
                        !.requests = Append(@, req),
                        !.response = resp,
                        !.result = [op |-> "create"] @@ create_result(resp)]
    /\ UNCHANGED <<up, publish, cipherVars, cidVars, progressVars, queueVars>>

\* the Upload-Metadata values a server may answer a HEAD with: none, the
\* value the creation request carried, and the base64 of "k:v;id"
InfoMetadataHeaders ==
    {Absent, tus.upload_metadata,
     Present(base64_encode(<<107, CH_COLON, 118, CH_SEMICOLON, 105, 100>>))}

\* the responses a server may give to the HEAD of a get_info call
InfoResponses ==
    {r @@ [upload_metadata |-> m] :
        r \in {h \in HeadResponses :
                 /\ h.upload_offset \in {HeaderAbsent, HeaderUnparsable, 0, 1}
                 /\ h.upload_length \in {HeaderAbsent, HeaderUnparsable, up.file_len}},
        m \in InfoMetadataHeaders}

\* lib.rs:64-105 Client::get_info, called for an upload of the server
Client_get_info ==
    /\ tus.pc \in {"idle", "created"} /\ up.pc = "idle"
    /\ \E resp \in InfoResponses :
          LET info == get_info(resp.transport_ok, resp.status_code,
                               resp.upload_offset, resp.upload_length)
              metadata == IF info.err = "none"
                          THEN get_info_metadata(resp.upload_metadata)
                          ELSE [some |-> FALSE, map |-> <<>>]
          IN  tus' = [tus EXCEPT
                        !.pc = "done",
                        !.requests = Append(@, create_request(up.client, "HEAD",
                                                              default_headers)),
                        !.response = resp,
                        !.result = [op |-> "get_info", metadata |-> metadata] @@ info]
    /\ UNCHANGED <<up, publish, cipherVars, cidVars, progressVars, queueVars>>

\* the texts of the extension names, of some spellings of them and of a
\* version list
CREATION == <<99, 114, 101, 97, 116, 105, 111, 110>>
EXPIRATION == <<101, 120, 112, 105, 114, 97, 116, 105, 111, 110>>
EXPIRATION_CAPITAL == <<69, 120, 112, 105, 114, 97, 116, 105, 111, 110>>
CHECKSUM == <<99, 104, 101, 99, 107, 115, 117, 109>>
CHECKSUM_UPPER == <<67, 72, 69, 67, 75, 83, 85, 77>>
TERMINATION == <<116, 101, 114, 109, 105, 110, 97, 116, 105, 111, 110>>
CONCATENATION == <<99, 111, 110, 99, 97, 116, 101, 110, 97, 116, 105, 111, 110>>
BOGUS == <<98, 111, 103, 117, 115>>
VERSIONS == <<49, 46, 48, 46, 48, 44, 48, 46, 50, 46, 50>>

\* longest Tus-Extension list of a response
MaxTokens == 2

\* str::trim: without the whitespace at both ends
RECURSIVE trim(_)
trim(text) ==
    IF text # <<>> /\ text[1] \in {9, 10, 13, CH_SPACE} THEN trim(Tail(text))
    ELSE IF text # <<>> /\ text[Len(text)] \in {9, 10, 13, CH_SPACE}
    THEN trim(SubSeq(text, 1, Len(text) - 1))
    ELSE text

\* str::to_lowercase on ASCII text
to_lowercase(text) ==
    [i \in 1..Len(text) |-> IF text[i] >= 65 /\ text[i] <= 90 THEN text[i] + 32
                            ELSE text[i]]

\* the names TusExtension::from_str matches (lib.rs:404-408)
ExtensionNames ==
    (CREATION :> "Creation") @@ (EXPIRATION :> "Expiration")
        @@ (CHECKSUM :> "Checksum") @@ (TERMINATION :> "Termination")
        @@ (CONCATENATION :> "Concatenation")

\* mutant: the token is matched as it stands
from_str_verbatim(text) ==
    IF text \in DOMAIN ExtensionNames
    THEN [ok |-> TRUE, extension |-> ExtensionNames[text]]
    ELSE [ok |-> FALSE, extension |-> "none"]

\* lib.rs:399-412 TusExtension::from_str
TusExtension_from_str(text) ==
    IF to_lowercase(trim(text)) \in DOMAIN ExtensionNames
    THEN [ok |-> TRUE, extension |-> ExtensionNames[to_lowercase(trim(text))]]
    ELSE [ok |-> FALSE, extension |-> "none"]

\* lib.rs:227-234: ext.split(',').filter_map(|e| e.parse().ok()).collect()
parse_extensions(header) ==
    LET parsed == [i \in DOMAIN split(header, CH_COMMA) |->
                      TusExtension_from_str(split(header, CH_COMMA)[i])]
        kept == SelectSeq(parsed, LAMBDA r : r.ok)
    IN  [i \in DOMAIN kept |-> kept[i].extension]

\* lib.rs:213-245: the result of get_server_info for a response
get_server_info(resp) ==
    IF ~resp.transport_ok THEN [err |-> "HttpHandlerError"]
    ELSE IF resp.status_code \notin {200, 204}
    THEN [err |-> "UnexpectedStatusCode", status_code |-> resp.status_code]
    ELSE IF ~resp.tus_version.present THEN [err |-> "MissingHeader"]
    ELSE [err |-> "none",
          supported_versions |-> split(resp.tus_version.value, CH_COMMA),
          extensions |-> IF resp.tus_extension.present
                         THEN parse_extensions(resp.tus_extension.value)
                         ELSE <<>>,
          max_upload_size |-> IF resp.tus_max_size = HeaderUnparsable
                              THEN HeaderAbsent ELSE resp.tus_max_size]

\* the tokens a server may list in Tus-Extension: the five names in some
\* spelling, an unknown one and an empty one
ExtensionTokens ==
    {CREATION, <<CH_SPACE>> \o EXPIRATION_CAPITAL, CHECKSUM_UPPER, TERMINATION,
     CONCATENATION \o <<CH_SPACE>>, BOGUS, <<>>}

\* the responses a server may give to the OPTIONS request; `tokens` is the
\* list the Tus-Extension value was joined from
ServerInfoResponses ==
    {[transport_ok |-> t, status_code |-> st, tus_version |-> v,
      tokens |-> tk, tus_extension |-> Present(join(tk, CH_COMMA)),
      tus_max_size |-> m] :
        t \in BOOLEAN, st \in {200, 204, 500}, v \in {Absent, Present(VERSIONS)},
        tk \in UNION {[1..n -> ExtensionTokens] : n \in 1..MaxTokens},
        m \in {HeaderAbsent, HeaderUnparsable, 1}}
    \cup
    {[transport_ok |-> TRUE, status_code |-> st, tus_version |-> v,
      tokens |-> <<>>, tus_extension |-> Absent, tus_max_size |-> HeaderAbsent] :
        st \in {200, 204, 500}, v \in {Absent, Present(VERSIONS)}}

\* lib.rs:210-246 Client::get_server_info
Client_get_server_info ==
    /\ tus.pc = "idle" /\ up.pc = "idle"
    /\ \E resp \in ServerInfoResponses :
          tus' = [tus EXCEPT
                    !.pc = "done",
                    !.requests = Append(@, create_request(up.client, "OPTIONS", <<>>)),
                    !.response = resp,
                    !.result = [op |-> "get_server_info"] @@ get_server_info(resp)]
    /\ UNCHANGED <<up, publish, cipherVars, cidVars, progressVars, queueVars>>

\* the responses a server may give to the DELETE request
DeleteResponses ==
    {[transport_ok |-> t, status_code |-> st] : t \in BOOLEAN, st \in {204, 200, 404}}

\* lib.rs:305-315 Client::delete
Client_delete ==
    /\ tus.pc = "idle" /\ up.pc = "idle"
    /\ \E resp \in DeleteResponses :
          tus' = [tus EXCEPT
                    !.pc = "done",
                    !.requests = Append(@, create_request(up.client, "DELETE",
                                                          default_headers)),
                    !.response = resp,
                    !.result =
                        IF ~resp.transport_ok
                        THEN [op |-> "delete", err |-> "HttpHandlerError"]
                        ELSE IF resp.status_code # 204
                        THEN [op |-> "delete", err |-> "UnexpectedStatusCode",
                              status_code |-> resp.status_code]
                        ELSE [op |-> "delete", err |-> "none"]]
    /\ UNCHANGED <<up, publish, cipherVars, cidVars, progressVars, queueVars>>

----------------------------------------------------------------------------
(* The publish step: upload_video with upload_video_s5 / upload_video_ipfs  *)
(* and the response transcode_video builds from its result                  *)

\* the errors of Client::create_with_metadata (lib.rs:264-302)
CreateErrors ==
    {"IoError", "HttpHandlerError", "FileTooLarge", "UnexpectedStatusCode",
     "MissingHeader"}

\* the errors of Client::upload_with_chunk_size (lib.rs:132-199)
UploadErrors ==
    {"IoError", "HttpHandlerError", "NotFoundError", "ParsingError",
     "UnequalSizeError", "FileReadError", "WrongUploadOffsetError",
     "UnexpectedStatusCode", "MissingHeader"}

\* format.dest of a video format
Dests == {"s5", "ipfs"}

PublishIdle ==
    [pc |-> "idle", dest |-> "s5", hash |-> <<>>, file_size |-> 0,
     cid_bytes |-> <<>>, create |-> "none", upload_url |-> "none",
     upload |-> "none", result |-> "none", cid |-> <<>>,
     response |-> [status_code |-> 0, cid |-> <<>>]]

PublishCalls ==
    {[PublishIdle EXCEPT !.dest = d, !.hash = blake3_hash(h), !.file_size = n] :
        d \in Dests, h \in HashSeeds, n \in CidFileSizes}

\* s5.rs:36-64, 136-144: upload_video is called for a transcoded file; for
\* the s5 network the file is sized and hashed (a file that cannot be read
\* panics), the cid computed and the create request sent
upload_video ==
    /\ publish.pc = "idle"
    /\ publish.hash # <<>>
    /\ \E readable \in BOOLEAN :
          publish' =
             IF publish.dest = "ipfs" THEN [publish EXCEPT !.pc = "ipfs"]
             ELSE IF ~readable
             THEN [publish EXCEPT !.pc = "done", !.result = "panic"]
             ELSE LET cid_bytes ==
                          hash_to_cid(URL_SAFE_NO_PAD_encode(
                                          <<MHASH_BLAKE3>> \o publish.hash),
                                      publish.file_size)
                  IN  IF cid_bytes.ok
                      THEN [publish EXCEPT !.pc = "create",
                                           !.cid_bytes = cid_bytes.bytes]
                      ELSE [publish EXCEPT !.pc = "done", !.result = "panic"]
    /\ UNCHANGED <<up, tus, cipherVars, cidVars, progressVars, queueVars>>

\* s5.rs:91-134: upload_video_ipfs returns the cid of the pinning service or
\* an error
upload_video_ipfs ==
    /\ publish.pc = "ipfs"
    /\ \E ok \in BOOLEAN :
          publish' = IF ok
                     THEN [publish EXCEPT !.pc = "return", !.result = "Ok",
                                          !.cid = <<81, 109>>]
                     ELSE [publish EXCEPT !.pc = "return", !.result = "Err"]
    /\ UNCHANGED <<up, tus, cipherVars, cidVars, progressVars, queueVars>>

\* s5.rs:66-77: the upload URL after create_with_metadata: its location, or
\* the empty string after an error, which is only logged
upload_url_after_create(create) ==
    [pc |-> "upload",
     upload_url |-> IF create = "Ok" THEN "location" ELSE ""]

\* s5.rs:66-77: create_with_metadata returns
upload_video_s5_create ==
    /\ publish.pc = "create"
    /\ \E create \in {"Ok"} \cup CreateErrors :
          LET next == upload_url_after_create(create)
          IN  publish' = [publish EXCEPT
                            !.pc = next.pc,
                            !.create = create,
                            !.upload_url = next.upload_url,
                            !.result = IF next.pc = "return" THEN "Err" ELSE @]
    /\ UNCHANGED <<up, tus, cipherVars, cidVars, progressVars, queueVars>>

\* s5.rs:80-88: the result of upload_video_s5 after upload_with_chunk_size
\* returned: an error is only logged
upload_result_after_upload(upload) == "Ok"

\* s5.rs:79-88: upload_with_chunk_size is called with the upload URL (no
\* upload can succeed for the empty URL) and upload_video_s5 returns
upload_video_s5_upload ==
    /\ publish.pc = "upload"
    /\ \E upload \in {"Ok"} \cup UploadErrors :
          /\ publish.upload_url = "" => upload # "Ok"
          /\ publish' =
               [publish EXCEPT
                  !.pc = "return",
                  !.upload = upload,
                  !.result = upload_result_after_upload(upload),
                  !.cid = IF upload_result_after_upload(upload) = "Ok"
                          THEN <<CH_u>> \o bytes_to_base64url(publish.cid_bytes)
                          ELSE <<>>]
    /\ UNCHANGED <<up, tus, cipherVars, cidVars, progressVars, queueVars>>

\* transcode_video.rs:523-547: the response built from upload_video's result
transcode_video_response ==
    /\ publish.pc = "return"
    /\ publish' =
         [publish EXCEPT
            !.pc = "done",
            !.response = IF publish.result = "Ok"
                         THEN [status_code |-> 200, cid |-> publish.cid]
                         ELSE [status_code |-> 500, cid |-> <<>>]]
    /\ UNCHANGED <<up, tus, cipherVars, cidVars, progressVars, queueVars>>

----------------------------------------------------------------------------
(* shared.rs: the progress map *)

\* formats per task
MaxFormats == 3

TaskIds == {"t1", "t2"}

\* Option<i32>: <<>> is None, <<p>> is Some(p)
Some(p) == <<p>>

\* the lines ffmpeg writes: the seconds of the `time=` stamp, NoStamp for a
\* line without one
NoStamp == -1
ProgressLines == {NoStamp, 2, 6}

\* the total durations probed, in seconds; 0 when the probe failed
Durations == {0, 5}

\* (x / y * 100.0).round() for x >= 0 and y > 0
percent_rounded(x, y) == (200 * x + y) \div (2 * y)

\* transcode_video.rs parse_progress
parse_progress(line, total_duration) ==
    IF total_duration <= 0 THEN Some(0)
    ELSE IF line # NoStamp THEN Some(percent_rounded(line, total_duration))
    ELSE <<>>

\* Vec::resize(new_len, None) of a shorter list
resize(list, new_len) ==
    [i \in 1..new_len |-> IF i <= Len(list) THEN list[i] ELSE <<>>]

\* mutant: the list is resized whatever its length, which cuts a longer one
update_progress_resizing_always(map, task_id, format_index, progress) ==
    LET progress_list == IF task_id \in DOMAIN map THEN map[task_id] ELSE <<>>
        resized == resize(progress_list, format_index + 1)
        updated == [resized EXCEPT ![format_index + 1] = Some(progress)]
    IN  [t \in DOMAIN map \cup {task_id} |->
            IF t = task_id THEN updated ELSE map[t]]

\* shared.rs update_progress: the map after the call
update_progress(map, task_id, format_index, progress) ==
    LET progress_list == IF task_id \in DOMAIN map THEN map[task_id] ELSE <<>>
        resized == IF Len(progress_list) <= format_index
                   THEN resize(progress_list, format_index + 1)
                   ELSE progress_list
        updated == [resized EXCEPT ![format_index + 1] = Some(progress)]
    IN  [t \in DOMAIN map \cup {task_id} |->
            IF t = task_id THEN updated ELSE map[t]]

\* progress_list.iter().filter_map(|&p| p): the values of the set entries
RECURSIVE filter_map(_)
filter_map(list) ==
    IF list = <<>> THEN <<>> ELSE Head(list) \o filter_map(Tail(list))

RECURSIVE sum(_)
sum(values) == IF values = <<>> THEN 0 ELSE Head(values) + sum(Tail(values))

\* mutant: the mean over all the entries of the list, unset ones counting 0
calculate_progress_over_all(map, task_id) ==
    IF task_id \in DOMAIN map /\ Len(map[task_id]) > 0
    THEN sum(filter_map(map[task_id])) \div Len(map[task_id])
    ELSE 0

\* shared.rs calculate_overall_progress
calculate_overall_progress(map, task_id) ==
    IF task_id \in DOMAIN map
    THEN LET total == sum(filter_map(map[task_id]))
             count == Len(filter_map(map[task_id]))
         IN  IF count > 0 THEN total \div count ELSE 0
    ELSE 0

\* run_ffmpeg (transcode_video.rs:287-297) reads a line of a format's
\* transcoder and reports the progress parsed from it, if any
report_progress ==
    /\ \E t \in TaskIds, i \in 0..(MaxFormats - 1),
          line \in ProgressLines, total_duration \in Durations :
          LET progress == parse_progress(line, total_duration)
          IN  IF progress # <<>>
              THEN /\ PROGRESS_MAP' =
                        update_progress(PROGRESS_MAP, t, i, progress[1])
                   /\ latest' = [latest EXCEPT ![t][i] = progress]
              ELSE UNCHANGED <<PROGRESS_MAP, latest>>
    /\ UNCHANGED <<cipherVars, cidVars, uploadVars, queueVars>>

----------------------------------------------------------------------------
(* server.rs: the task channel, its producers and its single consumer *)

\* capacity of the mpsc channel (100 in main, scaled down)
QueueCapacity == 2
\* tasks submitted in a run
MaxTasks == 3

\* Path::file_stem of a text without '/': ok = FALSE is None
path_file_stem(name) ==
    IF name = <<>> \/ name = <<CH_DOT>> \/ name = <<CH_DOT, CH_DOT>>
    THEN [ok |-> FALSE, text |-> <<>>]
    ELSE IF rfind_dot(name) <= 0
    THEN [ok |-> TRUE, text |-> name]
    ELSE [ok |-> TRUE, text |-> Slice(name, 0, rfind_dot(name))]

\* Path::with_extension("")
path_with_extension_empty(name) ==
    IF path_file_stem(name).ok THEN path_file_stem(name).text ELSE name

\* server.rs:183-191: the source cid the worker works with and stores under;
\* ok = FALSE is the panic of .unwrap()
worker_source_cid(orig_source_cid) ==
    path_file_stem(path_with_extension_empty(orig_source_cid))

\* a well-formed encrypted CID text, as transcode_video.rs builds it
SampleEncryptedCid ==
    <<CH_u>> \o bytes_to_base64url(
        create_encrypted_cid(174, ENCRYPTION_ALGORITHM, CHUNK_SIZE_AS_POWER_OF_2,
                             <<MHASH_BLAKE3>> \o blake3_hash(2), generate_key(3), 0,
                             hash_bytes_to_cid(blake3_hash(9), 256)))

\* "uA", "uA.mp4", "uB", ""
SourceA == <<CH_u, 65>>
SourceAExt == SourceA \o Extension
SourceB == <<CH_u, 66>>
SourceEmpty == <<>>

\* media_formats of a request: a JSON list of formats (by id), the empty
\* string (the formats file is read instead) or text that is no JSON list
FormatList(ids) == [kind |-> "list", ids |-> ids]
FormatsEmpty == [kind |-> "empty", ids |-> <<>>]
FormatsGarbage == [kind |-> "garbage", ids |-> <<>>]
\* the content of MEDIA_FORMATS_FILE
DefaultFormats == <<1>>

\* the requests producers submit
Requests ==
    {[source_cid |-> SourceA, media_formats |-> FormatList(<<1>>),
      is_encrypted |-> FALSE, is_gpu |-> FALSE],
     [source_cid |-> SourceAExt, media_formats |-> FormatList(<<1, 2>>),
      is_encrypted |-> FALSE, is_gpu |-> TRUE],
     [source_cid |-> SourceB, media_formats |-> FormatsEmpty,
      is_encrypted |-> FALSE, is_gpu |-> FALSE],
     [source_cid |-> SourceB, media_formats |-> FormatsGarbage,
      is_encrypted |-> FALSE, is_gpu |-> FALSE],
     [source_cid |-> SampleEncryptedCid, media_formats |-> FormatList(<<1>>),
      is_encrypted |-> TRUE, is_gpu |-> FALSE],
     [source_cid |-> SourceB, media_formats |-> FormatList(<<1>>),
      is_encrypted |-> TRUE, is_gpu |-> FALSE],
     [source_cid |-> SourceEmpty, media_formats |-> FormatList(<<1>>),
      is_encrypted |-> FALSE, is_gpu |-> FALSE]}

NoTask ==
    [id |-> 0, source_cid |-> <<>>, media_formats |-> FormatsEmpty,
     is_encrypted |-> FALSE, is_gpu |-> FALSE]

WorkerInit ==
    [pc |-> "recv", task |-> NoTask, source_cid |-> <<>>,
     formats |-> <<>>, transcoded_formats |-> <<>>]

HistInit ==
    [sent |-> <<>>, received |-> <<>>, completed |-> {}, inserted |-> <<>>,
     replies |-> {}, skipped |-> {}]

\* the reply of a handler once its task is in the channel (server.rs:403-409)
Queued == [status_code |-> 200, message |-> "Transcoding task queued"]

\* the channel and the history once a task for req is in the channel
enqueued(req) ==
    LET task == [id |-> Len(hist.sent) + 1, source_cid |-> req.source_cid,
                 media_formats |-> req.media_formats,
                 is_encrypted |-> req.is_encrypted, is_gpu |-> req.is_gpu]
    IN  [channel |-> Append(channel, task),
         hist |-> [hist EXCEPT !.sent = Append(@, task.id),
                               !.replies = @ \cup {Queued}]]

\* sender.send(task).await of a handler with room in the channel and nobody
\* waiting for room: the task enters the channel and the handler replies
send(req) ==
    /\ Len(hist.sent) + Len(senders) < MaxTasks
    /\ Len(channel) < QueueCapacity
    /\ senders = <<>>
    /\ channel' = enqueued(req).channel
    /\ hist' = enqueued(req).hist
    /\ UNCHANGED <<worker, TRANSCODED, senders>>
    /\ UNCHANGED <<cipherVars, cidVars, uploadVars, progressVars>>

\* the handlers waiting for room once one more waits there with its task;
\* nothing is replied to its caller meanwhile
send_or_wait(req) == Append(senders, [req |-> req, reply |-> "none"])

\* sender.send(task).await of a handler without room in the channel (or
\* behind handlers that wait for room already): the handler waits
send_full(req) ==
    /\ Len(hist.sent) + Len(senders) < MaxTasks
    /\ Len(channel) >= QueueCapacity \/ senders # <<>>
    /\ senders' = send_or_wait(req)
    /\ UNCHANGED <<channel, worker, TRANSCODED, hist>>
    /\ UNCHANGED <<cipherVars, cidVars, uploadVars, progressVars>>

\* server.rs:362-410: the gRPC handler
TranscodeServiceHandler_transcode ==
    \E req \in Requests : send(req) \/ send_full(req)

\* server.rs:474-504: the REST handler
RestHandler_transcode ==
    \E req \in Requests : send(req) \/ send_full(req)

\* room appeared: the handler that waited longest gets it, its task enters
\* the channel and it replies
send_resumed ==
    /\ senders # <<>>
    /\ Len(channel) < QueueCapacity
    /\ channel' = enqueued(Head(senders).req).channel
    /\ hist' = enqueued(Head(senders).req).hist
    /\ senders' = Tail(senders)
    /\ UNCHANGED <<worker, TRANSCODED>>
    /\ UNCHANGED <<cipherVars, cidVars, uploadVars, progressVars>>

\* mutant: a second consumer loop may take a task while one is in progress
receiver_ready_always == channel # <<>>

\* server.rs:180-181: the consumer is at `receiver.lock().await.recv().await`
\* and a task is in the channel
receiver_ready == worker.pc = "recv" /\ channel # <<>>

\* server.rs:180-191: the next task is taken and its source cid derived
transcode_task_receiver_recv ==
    /\ receiver_ready
    /\ LET task == Head(channel)
           source_cid == worker_source_cid(task.source_cid)
       IN  /\ channel' = Tail(channel)
           /\ hist' = [hist EXCEPT !.received = Append(@, task.id)]
           /\ worker' = IF source_cid.ok
                        THEN [WorkerInit EXCEPT !.pc = "fetch", !.task = task,
                                                !.source_cid = source_cid.text]
                        ELSE [WorkerInit EXCEPT !.pc = "panicked", !.task = task]
    /\ UNCHANGED <<TRANSCODED, senders>>
    /\ UNCHANGED <<cipherVars, cidVars, uploadVars, progressVars>>

\* what the network and the file system do while the source is fetched
FetchOutcomes ==
    {[download_ok |-> d, metadata_readable |-> m, parts_ok |-> c, authentic |-> a] :
        d \in BOOLEAN, m \in BOOLEAN, c \in BOOLEAN, a \in BOOLEAN}

\* server.rs:194-303: where the worker goes after fetching the source:
\* "formats" to go on, "recv" for `continue`, "panicked" for an unwrap/expect.
\* blob_hash and key are the results of the two decoders for the source cid.
fetch_source(is_encrypted, blob_hash, key, env) ==
    IF is_encrypted
    THEN IF ~blob_hash.ok THEN "panicked"
         ELSE IF ~env.download_ok \/ ~env.metadata_readable THEN "recv"
         ELSE IF ~env.parts_ok THEN "panicked"   \* get_file_size(..).unwrap()
         ELSE IF ~key.ok THEN "panicked"
         ELSE IF ~env.authentic
         THEN decrypt_auth_failure(0).result
         ELSE "formats"
    ELSE IF env.download_ok THEN "formats" ELSE "recv"

\* server.rs:194-303: download (and decrypt) the source
transcode_task_receiver_fetch ==
    /\ worker.pc = "fetch"
    /\ \E blob_hash \in {get_base64_url_encrypted_blob_hash(worker.source_cid)},
          key \in {get_key_from_encrypted_cid(worker.source_cid)},
          env \in FetchOutcomes :
             LET next == fetch_source(worker.task.is_encrypted, blob_hash, key, env)
             IN  /\ worker' = IF next = "formats"
                              THEN [worker EXCEPT !.pc = "formats"]
                              ELSE IF next = "recv"
                              THEN [WorkerInit EXCEPT !.pc = "recv"]
                              ELSE [worker EXCEPT !.pc = "panicked"]
                 /\ hist' = IF next = "recv"
                            THEN [hist EXCEPT
                                    !.completed = @ \cup {worker.task.id},
                                    !.skipped = @ \cup {worker.source_cid}]
                            ELSE hist
    /\ UNCHANGED <<channel, TRANSCODED, senders>>
    /\ UNCHANGED <<cipherVars, cidVars, uploadVars, progressVars>>

\* server.rs:305-315: the list of formats; a text that is no JSON list
\* panics in expect("Failed to parse video formats")
transcode_task_receiver_formats ==
    /\ worker.pc = "formats"
    /\ LET mf == worker.task.media_formats
       IN  worker' =
             IF mf.kind = "garbage" THEN [worker EXCEPT !.pc = "panicked"]
             ELSE [worker EXCEPT
                     !.pc = "transcode",
                     !.formats = IF mf.kind = "empty" THEN DefaultFormats ELSE mf.ids]
    /\ UNCHANGED <<channel, TRANSCODED, senders, hist>>
    /\ UNCHANGED <<cipherVars, cidVars, uploadVars, progressVars>>

\* what transcode_video does: it returns Err(status), or Ok(response) with
\* status code 200 and a cid, or Ok(response) with status code 500 and an
\* empty cid, or it panics in an unwrap/expect (s5.rs:45,49,
\* transcode_video.rs:450,469)
TranscodeResults == {"Err", "Ok200", "Ok500", "Panic"}

\* server.rs:319-344: one format is transcoded; every Ok response is pushed
transcode_task_receiver_transcode ==
    /\ worker.pc = "transcode"
    /\ worker.formats # <<>>
    /\ \E r \in TranscodeResults :
          worker' =
             IF r = "Panic" THEN [worker EXCEPT !.pc = "panicked"]
             ELSE [worker EXCEPT
                     !.formats = Tail(@),
                     !.transcoded_formats =
                         IF r = "Err" THEN @
                         ELSE Append(@, [id |-> Head(worker.formats),
                                         cid |-> IF r = "Ok200" THEN "cid" ELSE ""])]
    /\ UNCHANGED <<channel, TRANSCODED, senders, hist>>
    /\ UNCHANGED <<cipherVars, cidVars, uploadVars, progressVars>>

\* server.rs:346-351: the result list is stored under the worker's source cid
transcode_task_receiver_insert ==
    /\ worker.pc = "transcode"
    /\ worker.formats = <<>>
    /\ TRANSCODED' =
          [k \in DOMAIN TRANSCODED \cup {worker.source_cid} |->
              IF k = worker.source_cid THEN worker.transcoded_formats
              ELSE TRANSCODED[k]]
    /\ hist' = [hist EXCEPT
                  !.completed = @ \cup {worker.task.id},
                  !.inserted = Append(@, [id |-> worker.task.id,
                                          submitted |-> worker.task.source_cid,
                                          list |-> worker.transcoded_formats])]
    /\ worker' = [WorkerInit EXCEPT !.pc = "recv"]
    /\ UNCHANGED <<channel, senders>>
    /\ UNCHANGED <<cipherVars, cidVars, uploadVars, progressVars>>

\* server.rs:412-433, 523-541: get_transcoded for a source cid
get_transcoded(source_cid) ==
    IF source_cid \in DOMAIN TRANSCODED
    THEN [status_code |-> 200, metadata |-> TRANSCODED[source_cid]]
    ELSE [status_code |-> 404, metadata |-> <<>>]

----------------------------------------------------------------------------
(* Specifications, one per component *)

\* the components modelled after the codecs, at rest
UploadIdle == up = UpIdle /\ tus = TusIdle /\ publish = PublishIdle
ProgressIdle ==
    /\ PROGRESS_MAP = <<>>
    /\ latest = [t \in TaskIds |-> [i \in 0..(MaxFormats - 1) |-> <<>>]]
QueueIdle ==
    /\ channel = <<>>
    /\ worker = WorkerInit
    /\ TRANSCODED = <<>>
    /\ senders = <<>>
    /\ hist = HistInit
OthersIdle == UploadIdle /\ ProgressIdle /\ QueueIdle
CodecsIdle ==
    /\ inp = [file |-> <<>>, padding |-> 0, key |-> <<>>]
    /\ enc = EncInit
    /\ dec = DecInit
    /\ cid = CidIdle

InitCipher ==
    /\ inp \in {[file |-> FileOf(n), padding |-> p, key |-> generate_key(s)] :
                  n \in FileSizes, p \in 0..MaxPadding, s \in KeySeeds}
    /\ enc = EncInit
    /\ dec = DecInit
    /\ cid = CidIdle
    /\ OthersIdle

NextCipher ==
    \/ encrypt_file_xchacha20
    \/ encrypt_file_xchacha20_internal
    \/ decrypt_file_xchacha20
    \/ decrypt_file_xchacha20_internal

SpecCipher == InitCipher /\ [][NextCipher]_vars

InitCid ==
    /\ inp = [file |-> <<>>, padding |-> 0, key |-> <<>>]
    /\ enc = EncInit
    /\ dec = DecInit
    /\ cid \in CidInputs
    /\ OthersIdle

NextCid ==
    \/ transcode_video_plain_cid
    \/ upload_video_s5_cid
    \/ transcode_video_encrypted_cid
    \/ worker_get_key
    \/ worker_get_blob_hash

SpecCid == InitCid /\ [][NextCid]_vars

InitUpload ==
    /\ CodecsIdle
    /\ up \in UploadCalls
    /\ tus = TusIdle
    /\ publish = PublishIdle
    /\ ProgressIdle
    /\ QueueIdle

NextUpload ==
    \/ upload_with_chunk_size
    \/ upload_after_get_info
    \/ upload_read_and_patch
    \/ upload_patch_response

SpecUpload == InitUpload /\ [][NextUpload]_vars

\* the tus client against a server that has the upload and takes every PATCH
NextUploadGood ==
    \/ upload_with_chunk_size
    \/ upload_after_get_info_good
    \/ upload_read_and_patch
    \/ upload_patch_response_good

SpecUploadGood == InitUpload /\ [][NextUploadGood]_vars

\* the tus client: one call of any of its operations
InitTus ==
    /\ CodecsIdle
    /\ up \in {u \in UploadCalls : u.chunk_size = 1}
    /\ tus = TusIdle
    /\ publish = PublishIdle
    /\ ProgressIdle
    /\ QueueIdle

NextTus ==
    \/ Client_create_with_metadata
    \/ Client_get_info
    \/ Client_get_server_info
    \/ Client_delete
    \/ NextUpload

SpecTus == InitTus /\ [][NextTus]_vars

InitPublish ==
    /\ CodecsIdle
    /\ up = UpIdle
    /\ tus = TusIdle
    /\ publish \in PublishCalls
    /\ ProgressIdle
    /\ QueueIdle

NextPublish ==
    \/ upload_video
    \/ upload_video_ipfs
    \/ upload_video_s5_create
    \/ upload_video_s5_upload
    \/ transcode_video_response

SpecPublish == InitPublish /\ [][NextPublish]_vars

InitProgress ==
    /\ CodecsIdle
    /\ UploadIdle
    /\ ProgressIdle
    /\ QueueIdle

NextProgress == report_progress

SpecProgress == InitProgress /\ [][NextProgress]_vars

InitQueue ==
    /\ CodecsIdle
    /\ UploadIdle
    /\ ProgressIdle
    /\ QueueIdle

NextQueue ==
    \/ TranscodeServiceHandler_transcode
    \/ RestHandler_transcode
    \/ send_resumed
    \/ transcode_task_receiver_recv
    \/ transcode_task_receiver_fetch
    \/ transcode_task_receiver_formats
    \/ transcode_task_receiver_transcode
    \/ transcode_task_receiver_insert

SpecQueue == InitQueue /\ [][NextQueue]_vars

----------------------------------------------------------------------------
(* Claims about the cipher codec *)

\* the decrypt call of the round trip: same key, same padding, L computed
\* from the encrypted size, ciphertext untouched, files opened
RoundTripCall ==
    /\ dec.pc # "idle"
    /\ dec.result # "IoError"
    /\ dec.tampered = -1
    /\ dec.padding = inp.padding
    /\ dec.last_chunk_index = last_index_size(FileLen(enc.out))

\* C1 (as stated): for every padding P >= 0 and every file size of the list,
\* encrypt completes and decrypt with the returned key, the same P and
\* L = floor(encrypted_size / (chunk + tag)) completes without error and
\* writes exactly the bytes of the file.
C1_RoundTrip ==
    /\ (enc.pc = "done" /\ enc.result # "IoError") => enc.result = "Ok"
    /\ (RoundTripCall /\ dec.pc = "done") =>
          (dec.result = "Ok" /\ dec.out = inp.file)

\* C2 (as stated): when a byte of ciphertext chunk i was altered, decrypt
\* ends with the CipherAuthError of chunk i, returned as an error value.
C2_TamperReturnsCipherAuthError ==
    (dec.tampered # -1 /\ dec.pc = "done" /\ dec.result # "IoError") =>
        (dec.result = "CipherAuthError" /\ dec.failed_chunk = dec.tampered)

\* C19 (as stated): every byte decrypt wrote belongs to a chunk whose tag
\* verified, and when decrypt fails at a chunk the failure is an error outcome
\* and the output holds nothing of the file.
C19_NoUnauthenticatedOutput ==
    /\ \A i \in 1..dec.chunk_index :
          i <= Len(dec.input) /\ dec.input[i].flipped = {}
    /\ (dec.pc = "done" /\ dec.failed_chunk # -1) =>
          /\ dec.result = "CipherAuthError"
          /\ dec.out = <<>>

\* ceil(n / ChunkSize)
ChunksOf(n) == (n + ChunkSize - 1) \div ChunkSize

\* encrypt ran to its end with the files opened
Encrypted == enc.pc = "done" /\ enc.result # "IoError"

\* C28 (as stated): encrypt of a file of n bytes with padding P writes
\* ceil(n / chunk) boxes in chunk-index order, box i holding
\* min(chunk, remaining) bytes and the tag, the last one P padding bytes
\* more; an empty file gives an empty output.
C28_ContainerLayout ==
    Encrypted =>
        LET n == Len(inp.file)
        IN  /\ Len(enc.out) = ChunksOf(n)
            /\ \A i \in 1..Len(enc.out) :
                  /\ enc.out[i].nonce[1] = i - 1
                  /\ BoxLen(enc.out[i]) =
                        Min(ChunkSize, n - (i - 1) * ChunkSize) + TagSize
                        + (IF i = ChunksOf(n) THEN inp.padding ELSE 0)
            /\ n = 0 => enc.out = <<>>

\* the nonce the claim names for chunk i: byte k (0-based) of the first four
\* is (i / 256^k) mod 256, the other twenty are zero
IsNonceOf(nonce, i) ==
    /\ Len(nonce) = NonceSize
    /\ nonce[1] = i % 256
    /\ nonce[2] = (i \div 256) % 256
    /\ nonce[3] = (i \div 65536) % 256
    /\ nonce[4] = (i \div 16777216) % 256
    /\ \A k \in 5..NonceSize : nonce[k] = 0

\* C29: chunk i is sealed under the nonce made of i in 4 little-endian bytes
\* and 20 zero bytes, no two chunks of a file share a nonce, and decrypt
\* opens chunk i with that same nonce.
C29_NonceDerivation ==
    /\ \A i \in 1..Len(enc.out) : IsNonceOf(enc.out[i].nonce, i - 1)
    /\ \A i, j \in 1..Len(enc.out) :
          i # j => enc.out[i].nonce # enc.out[j].nonce
    /\ \A i \in 1..Len(dec.nonces) :
          /\ IsNonceOf(dec.nonces[i], i - 1)
          /\ i <= Len(enc.out) /\ dec.nonces[i] = enc.out[i].nonce

\* decrypt has just written chunk dec.chunk_index
WroteChunk == dec'.chunk_index = dec.chunk_index + 1

\* the plaintext of the chunk decrypt is at
ChunkPlaintext == dec.input[dec.chunk_index + 1].pt

\* s without its last n bytes
DropLast(s, n) == SubSeq(s, 1, Len(s) - n)

\* C31 (as stated): the chunk whose index is L is written as its decrypted
\* plaintext without the final 16 + P bytes, every other chunk as its whole
\* decrypted plaintext.
C31_TruncationAtL ==
    [][WroteChunk =>
          dec'.out = dec.out \o
              (IF dec.chunk_index = dec.last_chunk_index
               THEN DropLast(ChunkPlaintext, 16 + dec.padding)
               ELSE ChunkPlaintext)]_vars

\* C31 (amended): the chunk whose index is L is written as its decrypted
\* plaintext without the final P bytes, every other chunk as its whole
\* decrypted plaintext.
C31_TruncationByPaddingAtL ==
    [][WroteChunk =>
          dec'.out = dec.out \o
              (IF dec.chunk_index = dec.last_chunk_index
               THEN DropLast(ChunkPlaintext, dec.padding)
               ELSE ChunkPlaintext)]_vars

\* witness of C31: with P > 0, chunk L = 1 and the chunk before it were
\* written and something of chunk L was left
C31_Witness ==
    /\ dec.padding > 0 /\ dec.last_chunk_index = 1
    /\ dec.chunk_index = 2
    /\ Len(dec.out) > ChunkSize

\* decrypt was called on the untouched ciphertext with the key of encrypt
\* and with an L or a P that is not the one of the round trip
WrongLOrP ==
    /\ dec.pc # "idle" /\ dec.result # "IoError"
    /\ dec.tampered = -1
    /\ \/ dec.padding # inp.padding
       \/ dec.last_chunk_index # last_index_size(FileLen(enc.out))

\* the file bytes of the chunks before chunk `index`
BeforeChunk(index) ==
    SubSeq(inp.file, 1, Min(Len(inp.file), index * ChunkSize))

\* C32 (as stated): decrypt of an authentic ciphertext with the right key
\* and a wrong L or P ends without an error, and what it wrote starts with
\* the file bytes of the chunks before chunk L.
C32_WrongLOrPIsSilent ==
    (WrongLOrP /\ dec.pc = "done") =>
        /\ dec.result = "Ok"
        /\ Len(dec.out) >= Len(BeforeChunk(dec.last_chunk_index))
        /\ SubSeq(dec.out, 1, Len(BeforeChunk(dec.last_chunk_index)))
              = BeforeChunk(dec.last_chunk_index)

\* C38 (as stated): the plaintext range of a last chunk of c < chunk size
\* bytes with padding P, c + P bytes, lies within the read buffer, and
\* encrypt never aborts on it.
C38_EncryptStaysInBuffer ==
    /\ enc.pc = "loop" =>
          LET c == Min(ChunkSize, Len(inp.file) - enc.pos)
          IN  c < ChunkSize => c + inp.padding <= Len(enc.buffer)
    /\ enc.result # "panic"

\* the longest file was sealed chunk by chunk and every chunk opened again
C29_Witness ==
    /\ Len(enc.out) = 4
    /\ Len(dec.nonces) = 4
    /\ dec.pc = "done" /\ dec.result = "Ok"

----------------------------------------------------------------------------
(* Claims about the CID codec *)

\* the decoders were given the bare text 'u' ++ base64url-nopad(encrypted CID)
DecodedBare ==
    /\ cid.encrypt = "Ok"
    /\ cid.key_out.set /\ cid.key_out.form = "bare"
    /\ cid.hash_out.set /\ cid.hash_out.form = "bare"

\* C3 (as stated): get_key_from_encrypted_cid returns exactly the 32-byte
\* key and get_base64_url_encrypted_blob_hash exactly the 33-byte hash that
\* create_encrypted_cid was given.
C3_DecodersReturnKeyAndHash ==
    DecodedBare =>
        /\ cid.key_out.ok /\ cid.key_out.text = cid.key
        /\ cid.hash_out.ok
        /\ cid.hash_out.text = <<MHASH_BLAKE3>> \o cid.hash_encrypted

\* C3 (amended): the decoders return the unpadded base64url text of the key
\* and of the hash: decoding that text gives exactly the 32-byte key and the
\* 33-byte hash that create_encrypted_cid was given.
C3_DecodersReturnBase64urlOfKeyAndHash ==
    DecodedBare =>
        /\ cid.key_out.ok
        /\ base64url_to_bytes(cid.key_out.text) = [ok |-> TRUE, bytes |-> cid.key]
        /\ Len(cid.key_out.text) = 43
        /\ cid.hash_out.ok
        /\ base64url_to_bytes(cid.hash_out.text) =
              [ok |-> TRUE, bytes |-> <<MHASH_BLAKE3>> \o cid.hash_encrypted]
        /\ Len(cid.hash_out.text) = 44

\* witness of C3: both decoders ran on the CID of a key and a hash
C3_Witness ==
    /\ DecodedBare
    /\ Len(cid.key) = 32 /\ Len(cid.hash_encrypted) = 32
    /\ cid.padding = 258
    /\ cid.key_out.ok /\ cid.hash_out.ok

\* a plain CID as hash_bytes_to_cid builds it: the type byte, the hash tag,
\* 32 bytes of hash and at most 8 bytes of size not ending in zero
WellFormedPlainCid(bytes) ==
    /\ Len(bytes) >= 34 /\ Len(bytes) <= 42
    /\ bytes[1] = CID_TYPE_RAW /\ bytes[2] = MHASH_BLAKE3
    /\ Len(bytes) > 34 => bytes[Len(bytes)] # 0

\* C21 (as stated): every encrypted CID transcode_video builds holds a key of
\* exactly 32 bytes at bytes [36, 68) and a well-formed plain CID of the
\* decrypted content from byte 72 on, also when the encryption step failed.
C21_EncryptedCidValid ==
    cid.encrypted_cid_bytes # <<>> =>
        /\ Len(cid.encryption_key1) = KEY_SIZE
        /\ Slice(cid.encrypted_cid_bytes, key_start_index, key_start_index + KEY_SIZE)
              = cid.encryption_key1
        /\ WellFormedPlainCid(Slice(cid.encrypted_cid_bytes,
                                    key_start_index + KEY_SIZE + 4,
                                    Len(cid.encrypted_cid_bytes)))
        /\ Slice(cid.encrypted_cid_bytes, key_start_index + KEY_SIZE + 4,
                 Len(cid.encrypted_cid_bytes)) = cid.cid

\* the text after its first character is no base64url, or decodes to less
\* than `width` bytes
Undecodable(text, width) ==
    \/ text = <<>>
    \/ ~base64url_to_bytes(Slice(text, 1, Len(text))).ok
    \/ Len(base64url_to_bytes(Slice(text, 1, Len(text))).bytes) < width

\* the text the key decoder decodes: without the extension
WithoutExtension(text) ==
    IF rfind_dot(text) >= 0 THEN Slice(text, 0, rfind_dot(text)) ELSE text

\* C20 (as stated): a decoder handed a text that is no base64url, or one
\* decoding to less than 68 bytes (key) or 36 bytes (hash), returns the
\* CidDecodeError outcome to its caller.
C20_CidDecodeErrorsReturned ==
    /\ (/\ cid.key_out.set
        /\ Undecodable(WithoutExtension(DecoderInput(cid.key_out.form)),
                       key_start_index + KEY_SIZE)) =>
          cid.key_out.outcome = "CidDecodeError"
    /\ (/\ cid.hash_out.set
        /\ Undecodable(DecoderInput(cid.hash_out.form),
                       hash_start_index + ENCRYPTED_BLOB_HASH_SIZE)) =>
          cid.hash_out.outcome = "CidDecodeError"

\* the decoder returned the text of bytes [lo, hi) of the encrypted CID, which
\* is what it returns for the CID without a suffix
ReturnedBytes(r, lo, hi) ==
    /\ r.outcome = "Ok"
    /\ URL_SAFE_NO_PAD_decode(r.text).ok
    /\ URL_SAFE_NO_PAD_decode(r.text).bytes
          = Slice(cid.encrypted_cid_bytes, lo, hi)

\* C33 (as stated): handed the encrypted CID followed by '.' and a textual
\* extension, the key decoder returns bytes [36, 68) and the hash decoder
\* bytes [3, 36) of the CID, as they do for the CID without the suffix.
C33_ExtensionTolerated ==
    /\ (cid.key_out.set /\ cid.key_out.form = "ext") =>
          ReturnedBytes(cid.key_out, 36, 68)
    /\ (cid.hash_out.set /\ cid.hash_out.form = "ext") =>
          ReturnedBytes(cid.hash_out, 3, 36)

\* C40: for the same hash and size, hash_to_cid applied to the unpadded
\* base64url text of 0x1f followed by the hash returns the bytes
\* hash_bytes_to_cid returns for the hash.
C40_PlainCidEncodersAgree ==
    (cid.cid # <<>> /\ cid.s5_text # <<>>) =>
        /\ cid.s5_ok
        /\ cid.s5_cid = cid.cid

\* witness of C40: both encoders ran on a 32-byte hash and the size 65535
C40_Witness ==
    /\ Len(cid.hash) = 32 /\ cid.file_size = 65535
    /\ cid.cid # <<>> /\ cid.s5_text # <<>>
    /\ Len(cid.cid) = 36

\* the bytes an encoder appended after the type byte, the hash tag and the hash
SizeBytes(bytes) == Slice(bytes, 2 + 32, Len(bytes))

\* `tail` is the little-endian encoding of s without its trailing zero bytes
IsTrimmedLittleEndian(tail, s) ==
    /\ Len(tail) <= 8
    /\ tail \o Repeat(0, 8 - Len(tail)) = to_le_bytes(s, 8)
    /\ from_le_bytes(tail) = s
    /\ tail # <<>> => tail[Len(tail)] # 0
    /\ s = 0 => tail = <<>>
    /\ s = 256 => tail = <<0, 1>>

\* C4: the bytes both plain-CID encoders append after the hash are the
\* little-endian encoding of the size with all trailing zero bytes removed:
\* none for size 0, 00 01 for size 256, never ending in a zero byte, and
\* reading them as little-endian gives the size back.
C4_SizeTrimming ==
    /\ cid.cid # <<>> => IsTrimmedLittleEndian(SizeBytes(cid.cid), cid.file_size)
    /\ cid.s5_text # <<>> =>
          /\ cid.s5_ok
          /\ IsTrimmedLittleEndian(SizeBytes(cid.s5_cid), cid.file_size)

\* witness of C4: both encoders ran on size 256 and appended 00 01
C4_Witness ==
    /\ cid.file_size = 256
    /\ cid.cid # <<>> /\ SizeBytes(cid.cid) = <<0, 1>>
    /\ cid.s5_text # <<>> /\ SizeBytes(cid.s5_cid) = <<0, 1>>

\* `text` is 'u' followed by the unpadded base64url of the type byte 0x26,
\* the bytes `between`, the 32-byte hash and the trimmed little-endian size
IsPlainCidText(text, between) ==
    LET decoded == URL_SAFE_NO_PAD_decode(Tail(text))
        bytes   == decoded.bytes
        at      == 1 + Len(between)
    IN  /\ Head(text) = CH_u
        /\ \A i \in 1..Len(text) : text[i] # CH_EQ
        /\ decoded.ok
        /\ Len(bytes) >= at + 32
        /\ bytes[1] = 38
        /\ Slice(bytes, 1, at) = between
        /\ Len(cid.hash) = 32
        /\ Slice(bytes, at, at + 32) = cid.hash
        /\ IsTrimmedLittleEndian(Slice(bytes, at + 32, Len(bytes)),
                                 cid.file_size)

\* C30 (as stated): the CID text upload_video_s5 returns is 'u' followed by
\* the unpadded base64url of the type byte 0x26, the 32-byte hash and the
\* trimmed little-endian size, with nothing between the type byte and the
\* hash.
C30_PlainCidWireFormat ==
    cid.s5_text # <<>> => IsPlainCidText(cid.s5_text, <<>>)

\* C30 (amended): as above, with the hash tag byte 0x1f between the type
\* byte and the hash.
C30_PlainCidWireFormatTagged ==
    cid.s5_text # <<>> => IsPlainCidText(cid.s5_text, <<31>>)

\* witness of C30: the CID text of a file of 65536 bytes was built
C30_Witness ==
    /\ cid.s5_text # <<>>
    /\ cid.file_size = 65536
    /\ Len(cid.s5_cid) = 37

----------------------------------------------------------------------------
(* Claims about the tus client *)

\* the PATCH requests sent so far, in order
\* the method a request stands for: the one the override header names, or
\* its own
TrueMethod(r) ==
    IF "X-HTTP-METHOD-OVERRIDE" \in DOMAIN r.headers
    THEN r.headers["X-HTTP-METHOD-OVERRIDE"]
    ELSE r.method

PatchRequests == SelectSeq(up.requests, LAMBDA r : TrueMethod(r) = "PATCH")

\* C5: when get_info reports bytes_uploaded = N, no PATCH body holds a file
\* byte at a position below N, and the first PATCH carries Upload-Offset N
\* and a body that starts at file position N.
C5_UploadResumesAtOffset ==
    /\ \A i \in 1..Len(PatchRequests) :
          PatchRequests[i].body_start >= up.bytes_uploaded
    /\ PatchRequests # <<>> =>
          /\ PatchRequests[1].upload_offset = up.bytes_uploaded
          /\ PatchRequests[1].body_start = up.bytes_uploaded

\* a resumed upload (N > 0) that has sent two PATCH requests
C5_Witness ==
    /\ up.bytes_uploaded > 0
    /\ Len(PatchRequests) >= 2

\* C6: a PATCH answered with status 409 is the last request of the call,
\* and the call returns WrongUploadOffsetError.
C6_ConflictEndsUpload ==
    \A i \in 1..Len(up.statuses) :
        (TrueMethod(up.requests[i]) = "PATCH" /\ up.statuses[i] = 409) =>
            /\ i = Len(up.requests)
            /\ up.pc = "done"
            /\ up.result = "WrongUploadOffsetError"

\* a 409 answers the second PATCH of a call
C6_Witness ==
    /\ Len(up.statuses) >= 3
    /\ TrueMethod(up.requests[Len(up.statuses)]) = "PATCH"
    /\ up.statuses[Len(up.statuses)] = 409
    /\ up.statuses[Len(up.statuses) - 1] = 204

\* C16: when get_info reports a total size that differs from the length of
\* the local file, the call returns UnequalSizeError and the HEAD of get_info
\* is the only request sent.
C16_SizeMismatchSendsNothing ==
    /\ (up.total_size \notin {HeaderAbsent, up.file_len} /\ up.result # "IoError") =>
          /\ up.pc = "done"
          /\ up.result = "UnequalSizeError"
    /\ up.result = "UnequalSizeError" =>
          /\ Len(up.requests) = 1
          /\ TrueMethod(up.requests[1]) = "HEAD"

\* a call that ended with UnequalSizeError for a file the server has in part
C16_Witness ==
    /\ up.result = "UnequalSizeError"
    /\ up.total_size = up.file_len + 1
    /\ up.bytes_uploaded > 0

\* the bodies of the PATCH requests, in order, cover the file from position
\* `from` to its end without gap or overlap
RECURSIVE CoversInOrder(_, _, _)
CoversInOrder(patches, from, to) ==
    IF patches = <<>> THEN from = to
    ELSE /\ Head(patches).body_start = from
         /\ Head(patches).body_len > 0
         /\ CoversInOrder(Tail(patches), from + Head(patches).body_len, to)

\* C17 (as stated): the call returns Ok only when the last offset the server
\* reported is at least the file length, and against a server that takes every
\* PATCH it ends with Ok having sent every byte from the starting offset to
\* the end of the file once, in order.
C17_UploadCompletes ==
    /\ up.result = "Ok" => up.progress >= up.file_len
    /\ (up.pc = "done" /\ up.result # "IoError") =>
          /\ up.result = "Ok"
          /\ CoversInOrder(PatchRequests, up.bytes_uploaded, up.file_len)

\* C18 (as stated): the call returns FileReadError only while the current
\* offset is below the file length.
C18_FileReadErrorOnlyBelowLength ==
    up.result = "FileReadError" => up.progress < up.file_len

\* the call that ended was `op`
TusDone(op) == tus.pc = "done" /\ tus.result.op = op

\* the responses to the PATCH requests of the call, by request index
PatchAnswered ==
    {i \in 1..Len(up.statuses) : TrueMethod(up.requests[i]) = "PATCH"}

\* (a request the transport failed on is recorded with status 0)
\* the number of 204 responses among the first i responses to PATCH requests
Count204(i) ==
    Cardinality({j \in PatchAnswered : j <= i /\ up.statuses[j] = 204})

\* response i ended the call with `result`: no request follows it
EndedWith(i, result) ==
    /\ i = Len(up.requests)
    /\ up.pc = "done"
    /\ up.result = result

\* C34: a PATCH answered 404 ends the call with NotFoundError, one answered
\* with a status other than 204, 404 and 409 with UnexpectedStatusCode of
\* that status, one answered 204 without Upload-Offset with MissingHeader;
\* no request follows any of them.
C34_PatchResponseMapping ==
    \A i \in PatchAnswered :
        LET status == up.statuses[i]
        IN  /\ status = 404 => EndedWith(i, "NotFoundError")
            /\ status \notin {0, 204, 404, 409} =>
                  EndedWith(i, "UnexpectedStatusCode") /\ up.error_status = status
            /\ (status = 204 /\ up.offsets[Count204(i)] = HeaderAbsent) =>
                  EndedWith(i, "MissingHeader")

\* witness of C34: after a PATCH that was taken, a PATCH answered 500 ended
\* the call
C34_Witness ==
    /\ Len(up.statuses) = 3
    /\ TrueMethod(up.requests[3]) = "PATCH"
    /\ up.statuses[2] = 204 /\ up.statuses[3] = 500
    /\ up.result = "UnexpectedStatusCode"

\* C37 (as stated): the Upload-Offset of every PATCH is the file position of
\* the first byte of its body.
C37_PatchOffsetMatchesBody ==
    \A i \in 1..Len(up.requests) :
        TrueMethod(up.requests[i]) = "PATCH" =>
            up.requests[i].upload_offset = up.requests[i].body_start

\* the PATCH requests sent so far
PatchCount ==
    Cardinality({i \in 1..Len(up.requests) : TrueMethod(up.requests[i]) = "PATCH"})

\* the bytes of the file from the starting offset on
BytesLeftAtStart ==
    IF up.file_len > up.bytes_uploaded THEN up.file_len - up.bytes_uploaded ELSE 0

\* the loop was entered: get_info returned and the file was positioned
LoopEntered == up.pc \in {"loop", "patch"} \/ PatchCount > 0

\* the read the loop is about to do returns no byte, which ends the call
NextReadEndsCall ==
    /\ up.pc = "loop"
    /\ reader_read(up.reader, up.chunk_size, up.file_len).count = 0

\* every PATCH is answered and the call is not over
AtRead == up.pc = "loop"

C22_MetadataRoundTrip ==
    (/\ TusDone("get_info") /\ tus.result.err = "none"
     /\ tus.metadata # <<>>
     /\ tus.response.upload_metadata = tus.upload_metadata) =>
        tus.result.metadata = [some |-> TRUE, map |-> tus.metadata]

\* the extension each spelling a server lists stands for; the other tokens
\* stand for none
Recognized ==
    (CREATION :> "Creation") @@ ((<<CH_SPACE>> \o EXPIRATION_CAPITAL) :> "Expiration")
        @@ (CHECKSUM_UPPER :> "Checksum") @@ (TERMINATION :> "Termination")
        @@ ((CONCATENATION \o <<CH_SPACE>>) :> "Concatenation")

RecognizedIn(tokens) ==
    LET kept == SelectSeq(tokens, LAMBDA t : t \in DOMAIN Recognized)
    IN  [i \in DOMAIN kept |-> Recognized[kept[i]]]

\* C23: get_server_info answers a status other than 200 and 204 with
\* UnexpectedStatusCode(status) whatever the headers, a 200 or 204 without
\* Tus-Version with MissingHeader, and otherwise lists exactly the recognized
\* extensions in header order, unrecognized tokens dropped without error.
C23_ServerInfoOutcomes ==
    (TusDone("get_server_info") /\ tus.response.transport_ok) =>
        /\ tus.response.status_code \notin {200, 204} =>
              /\ tus.result.err = "UnexpectedStatusCode"
              /\ tus.result.status_code = tus.response.status_code
        /\ (/\ tus.response.status_code \in {200, 204}
            /\ ~tus.response.tus_version.present) =>
              tus.result.err = "MissingHeader"
        /\ (/\ tus.response.status_code \in {200, 204}
            /\ tus.response.tus_version.present) =>
              /\ tus.result.err = "none"
              /\ tus.result.extensions = RecognizedIn(tus.response.tokens)

\* a 204 listing an unknown token and " Expiration"
C23_Witness ==
    /\ TusDone("get_server_info")
    /\ tus.response.status_code = 204
    /\ tus.response.tokens = <<BOGUS, <<CH_SPACE>> \o EXPIRATION_CAPITAL>>
    /\ tus.result.err = "none"
    /\ tus.result.extensions = <<"Expiration">>

\* the last call was create_with_metadata and the server answered it
Created ==
    /\ tus.pc \in {"done", "created"}
    /\ tus.result.op = "create"
    /\ tus.result.err \notin {"IoError", "HttpHandlerError"}

\* C24: create_with_metadata answers 413 with FileTooLarge, any other status
\* but 201 with UnexpectedStatusCode(status), a 201 without Location with
\* MissingHeader and a 201 with Location with that header's value; one
\* request is sent and it carries the file's length as Upload-Length.
C24_CreateOutcomes ==
    Created =>
        /\ tus.response.status_code = 413 => tus.result.err = "FileTooLarge"
        /\ tus.response.status_code \notin {413, 201} =>
              /\ tus.result.err = "UnexpectedStatusCode"
              /\ tus.result.status_code = tus.response.status_code
        /\ (tus.response.status_code = 201 /\ ~tus.response.location.present) =>
              tus.result.err = "MissingHeader"
        /\ (tus.response.status_code = 201 /\ tus.response.location.present) =>
              /\ tus.result.err = "none"
              /\ tus.result.url = tus.response.location.value
        /\ Len(tus.requests) = 1
        /\ TrueMethod(tus.requests[1]) = "POST"
        /\ tus.requests[1].upload_length = up.file_len

\* a creation for a file of 3 bytes answered with 413
C24_Witness ==
    /\ Created
    /\ up.file_len = 3
    /\ tus.response.status_code = 413
    /\ tus.result.err = "FileTooLarge"

\* a get_info call whose HEAD the server answered
InfoAnswered == TusDone("get_info") /\ tus.response.transport_ok

\* what get_info returns for an answer with a parseable Upload-Offset and a
\* status that is no 4xx
InfoReturned ==
    /\ tus.result.err = "none"
    /\ tus.result.bytes_uploaded = tus.response.upload_offset
    /\ tus.result.total_size =
          IF tus.response.upload_length >= 0 THEN tus.response.upload_length
          ELSE HeaderAbsent

\* C25 (as stated): get_info answers a response without Upload-Offset with
\* NotFoundError, returns the offset and the parseable Upload-Length (absent
\* otherwise) for a parseable Upload-Offset and a status that is no 4xx, and
\* answers any 4xx status with NotFoundError.
C25_GetInfoOutcomes ==
    InfoAnswered =>
        /\ tus.response.upload_offset = HeaderAbsent =>
              tus.result.err = "NotFoundError"
        /\ (/\ tus.response.upload_offset >= 0
            /\ tus.response.status_code \div 100 # 4) => InfoReturned
        /\ tus.response.status_code \div 100 = 4 =>
              tus.result.err = "NotFoundError"

\* C25 (amended): as above, but a 4xx status gives NotFoundError when the
\* Upload-Offset header is absent or parseable; an Upload-Offset that is no
\* number gives ParsingError whatever the status.
C25_GetInfoOutcomesParsed ==
    InfoAnswered =>
        /\ tus.response.upload_offset = HeaderAbsent =>
              tus.result.err = "NotFoundError"
        /\ (/\ tus.response.upload_offset >= 0
            /\ tus.response.status_code \div 100 # 4) => InfoReturned
        /\ (/\ tus.response.status_code \div 100 = 4
            /\ tus.response.upload_offset # HeaderUnparsable) =>
              tus.result.err = "NotFoundError"
        /\ tus.response.upload_offset = HeaderUnparsable =>
              tus.result.err = "ParsingError"

\* a 404 that carries Upload-Offset: 1
C25_Witness ==
    /\ InfoAnswered
    /\ tus.response.status_code = 404
    /\ tus.response.upload_offset = 1
    /\ tus.result.err = "NotFoundError"

\* the method of the operation behind each request sent so far, first the
\* requests of the one-call operations, then those of the upload
OperationMethods ==
    (IF Len(tus.requests) = 2 THEN <<"POST", "HEAD">>
     ELSE IF tus.requests = <<>> THEN <<>>
     ELSE IF tus.result.op = "create" THEN <<"POST">>
     ELSE IF tus.result.op = "get_info" THEN <<"HEAD">>
     ELSE IF tus.result.op = "get_server_info" THEN <<"OPTIONS">>
     ELSE <<"DELETE">>)
    \o [i \in 1..Len(up.requests) |-> IF i = 1 THEN "HEAD" ELSE "PATCH"]

RequestsSent ==
    [i \in 1..(Len(tus.requests) + Len(up.requests)) |->
        IF i <= Len(tus.requests)
        THEN [method |-> tus.requests[i].method, headers |-> tus.requests[i].headers]
        ELSE [method |-> up.requests[i - Len(tus.requests)].method,
              headers |-> up.requests[i - Len(tus.requests)].headers]]

\* C26: a client built with method override sends every request as POST with
\* an X-HTTP-METHOD-OVERRIDE header naming the operation's method; a client
\* built without it sends the operation's method and no such header.
C26_MethodOverride ==
    \A i \in DOMAIN RequestsSent :
        IF up.client.use_method_override
        THEN /\ RequestsSent[i].method = "POST"
             /\ "X-HTTP-METHOD-OVERRIDE" \in DOMAIN RequestsSent[i].headers
             /\ RequestsSent[i].headers["X-HTTP-METHOD-OVERRIDE"] = OperationMethods[i]
        ELSE /\ RequestsSent[i].method = OperationMethods[i]
             /\ "X-HTTP-METHOD-OVERRIDE" \notin DOMAIN RequestsSent[i].headers

\* an upload of a client with method override that sent its HEAD and two PATCH
C26_Witness ==
    /\ up.client.use_method_override
    /\ Len(up.requests) = 3
    /\ \A i \in 1..3 : up.requests[i].method = "POST"

\* C27: a client with an auth token sends Authorization: Bearer <token> with
\* every request; a client without one sends no Authorization header.
C27_BearerTokenOnEveryRequest ==
    \A i \in DOMAIN RequestsSent :
        IF up.client.auth_token # "None"
        THEN /\ "Authorization" \in DOMAIN RequestsSent[i].headers
             /\ RequestsSent[i].headers["Authorization"] = "Bearer t0k3n"
        ELSE "Authorization" \notin DOMAIN RequestsSent[i].headers

\* a client with a token that created an upload and asked for its info
C27_Witness ==
    /\ up.client.auth_token = "t0k3n"
    /\ TusDone("get_info")
    /\ Len(tus.requests) = 2
    /\ \A i \in 1..2 : "Authorization" \in DOMAIN tus.requests[i].headers

----------------------------------------------------------------------------
(* Claims about the progress map *)

\* the formats of a task reported at least once
Reported(t) == {i \in 0..(MaxFormats - 1) : latest[t][i] # <<>>}

\* the sum of the latest values of a set of formats of a task
RECURSIVE LatestTotal(_, _)
LatestTotal(t, S) ==
    IF S = {} THEN 0
    ELSE LET i == CHOOSE j \in S : TRUE
         IN  latest[t][i][1] + LatestTotal(t, S \ {i})

\* C7: after any sequence of update_progress calls the overall progress of a
\* task is the integer mean of the latest values of the formats reported at
\* least once, and 0 for a task with no reported format and an unknown task.
C7_ProgressIsMeanOfReported ==
    /\ \A t \in TaskIds :
          calculate_overall_progress(PROGRESS_MAP, t) =
              IF Reported(t) = {} THEN 0
              ELSE LatestTotal(t, Reported(t)) \div Cardinality(Reported(t))
    /\ calculate_overall_progress(PROGRESS_MAP, "unknown") = 0

\* formats 0 and 2 at 40 and 120, format 1 never reported: 80
C7_Witness ==
    /\ latest["t1"][0] = Some(40)
    /\ latest["t1"][1] = <<>>
    /\ latest["t1"][2] = Some(120)
    /\ calculate_overall_progress(PROGRESS_MAP, "t1") = 80

\* entry j (1-based) of the list of task t in `map`; unset beyond its end
EntryOf(map, t, j) ==
    IF t \in DOMAIN map /\ j <= Len(map[t]) THEN map[t][j] ELSE <<>>

\* length of the list of task t in `map`
LenOf(map, t) == IF t \in DOMAIN map THEN Len(map[t]) ELSE 0

\* the step is update_progress(t, i, p) as the claim describes it
IsolatedUpdate(t, i, p) ==
    /\ DOMAIN PROGRESS_MAP' = DOMAIN PROGRESS_MAP \cup {t}
    /\ \A u \in DOMAIN PROGRESS_MAP \ {t} : PROGRESS_MAP'[u] = PROGRESS_MAP[u]
    /\ Len(PROGRESS_MAP'[t]) =
          IF LenOf(PROGRESS_MAP, t) < i + 1 THEN i + 1 ELSE LenOf(PROGRESS_MAP, t)
    /\ PROGRESS_MAP'[t][i + 1] = <<p>>
    /\ \A j \in 1..Len(PROGRESS_MAP'[t]) :
          j # i + 1 => PROGRESS_MAP'[t][j] = EntryOf(PROGRESS_MAP, t, j)

\* C36: update_progress(task, i, p) sets entry i of the task's list to p,
\* extends a shorter list with unset entries to length i + 1 and changes
\* nothing else; no list shrinks and no set entry becomes unset.
C36_PerFormatIsolation ==
    [][/\ \E t \in TaskIds, i \in 0..(MaxFormats - 1) :
             /\ latest'[t][i] # <<>>
             /\ IsolatedUpdate(t, i, latest'[t][i][1])
       /\ \A t \in DOMAIN PROGRESS_MAP :
             /\ t \in DOMAIN PROGRESS_MAP'
             /\ Len(PROGRESS_MAP'[t]) >= Len(PROGRESS_MAP[t])
             /\ \A j \in 1..Len(PROGRESS_MAP[t]) :
                   PROGRESS_MAP[t][j] # <<>> => PROGRESS_MAP'[t][j] # <<>>]_vars

\* witness of C36: format 0 of a task reported after its format 2, format 1
\* never, and another task has a list of its own
C36_Witness ==
    /\ "t1" \in DOMAIN PROGRESS_MAP /\ "t2" \in DOMAIN PROGRESS_MAP
    /\ PROGRESS_MAP["t1"] = <<Some(40), <<>>, Some(120)>>
    /\ PROGRESS_MAP["t2"] = <<Some(0)>>

\* a percentage
IsPercentage(p) == 0 <= p /\ p <= 100

\* C35 (as stated): every set entry of every progress list is between 0 and
\* 100, and so is the overall progress of every task.
C35_ProgressInRange ==
    \A t \in DOMAIN PROGRESS_MAP :
        /\ \A i \in 1..Len(PROGRESS_MAP[t]) :
              PROGRESS_MAP[t][i] # <<>> => IsPercentage(PROGRESS_MAP[t][i][1])
        /\ IsPercentage(calculate_overall_progress(PROGRESS_MAP, t))

----------------------------------------------------------------------------
(* Claims about the task queue *)

\* C8 (as stated): once the worker has finished a task submitted with source
\* address X, the result map has an entry under the key X as submitted, and a
\* status query for X returns the list of the task finished last for X.
C8_ResultKeyedBySubmittedAddress ==
    /\ \A k \in 1..Len(hist.inserted) :
          get_transcoded(hist.inserted[k].submitted).status_code = 200
    /\ hist.inserted # <<>> =>
          LET last == hist.inserted[Len(hist.inserted)]
          IN  get_transcoded(last.submitted).metadata = last.list

\* the tasks dequeued and not yet completed
InProgress == Range(hist.received) \ hist.completed

\* C9: at most one task is between dequeue and completion.
C9_OneTaskAtATime == Cardinality(InProgress) <= 1

\* a task is being processed while two producers' later tasks wait
C9_Witness ==
    /\ worker.pc \in {"fetch", "formats", "transcode"}
    /\ Cardinality(InProgress) = 1
    /\ Len(channel) = QueueCapacity

\* C10 (as stated): the tasks are dequeued in the order they were enqueued,
\* each once, and none is dropped: no task is left in the channel with the
\* consumer gone.
C10_FifoExactlyOnce ==
    /\ Len(hist.received) <= Len(hist.sent)
    /\ hist.received = SubSeq(hist.sent, 1, Len(hist.received))
    /\ ~(worker.pc = "panicked" /\ channel # <<>>)

\* C11 (as stated): at most QueueCapacity tasks are enqueued and not yet
\* dequeued, and a producer that submits while the channel is full has the
\* condition reported to it as retryable.
C11_BackpressureReportedRetryable ==
    /\ Len(channel) <= QueueCapacity
    /\ \A i \in 1..Len(senders) : senders[i].reply = "retryable"

\* C12 (as stated): whatever fails while a task is processed, the consumer
\* loop stays alive.
C12_ConsumerSurvivesFailures == worker.pc # "panicked"

\* C13 (as stated): a task whose processing was given up (the source could
\* not be downloaded, the metadata not read) has an entry for its source
\* address in the result map.
C13_FailuresAreRecorded ==
    \A source_cid \in hist.skipped : get_transcoded(source_cid).status_code = 200

\* C14 (as stated): no list of the result map has an element for a format
\* whose publish failed (response status 500, empty cid).
C14_OnlySuccessfulFormatsListed ==
    \A source_cid \in DOMAIN TRANSCODED :
        \A j \in 1..Len(TRANSCODED[source_cid]) :
            TRANSCODED[source_cid][j].cid # ""

----------------------------------------------------------------------------
(* Claims about the publish step *)

\* C15 (as stated): when create_with_metadata or upload_with_chunk_size
\* returns an error the attempt stops there (no upload is tried after a
\* failed create) and the response of the publish step reports the failure
\* (status 500, no cid).
C15_UploadErrorsSurfaced ==
    /\ publish.create \in CreateErrors => publish.upload = "none"
    /\ (publish.pc = "done" /\ publish.result # "panic"
          /\ (publish.create \in CreateErrors \/ publish.upload \in UploadErrors)) =>
             (publish.response.status_code = 500 /\ publish.response.cid = <<>>)

=============================================================================
